---- MODULE Spec2Model ----
(***************************************************************************)
(* sandbox-api-go: the request pipeline                                    *)
(*   PanicRecoveryMiddleware -> RequestLoggingMiddleware -> mux            *)
(*     -> ErrorMiddleware (-> AuthMiddleware) -> handler                   *)
(* together with the error taxonomy, the JWT component, the validation     *)
(* rules the handlers call and the users/tasks relations they query.       *)
(*                                                                         *)
(* Strings the code inspects character by character (usernames, e-mails,   *)
(* passwords, titles, the Authorization header) are sequences of           *)
(* one-character strings; strings the code only copies or compares are     *)
(* TLA+ strings.  The Go zero value "" of a string is <<>> resp. "".       *)
(***************************************************************************)
EXTENDS Integers, Sequences, FiniteSets, TLC

VARIABLES
    db,      \* the storage collaborator: users, tasks and their SERIAL counters
    now,     \* the wall clock, in seconds
    jar,     \* the auth_token cookies the clients hold (Set-Cookie of register/login)
    reg,     \* the POST /auth/register requests, one slot per concurrent worker
    last,    \* the last request served to completion, with everything it produced
    kept,    \* a token a client copied out of its cookie, Text("") while it has none
    minLevel \* the minimum level of the global logger (Logger.minLevel)

vars == <<db, now, jar, reg, last, kept, minLevel>>

-----------------------------------------------------------------------------
(* Bounds of the model *)

MaxUsers == 2
MaxTasks == 2
MaxInFlight == 2
MaxClock == 3

-----------------------------------------------------------------------------
(* errors: the taxonomy (errors package) *)

StatusOK == 200
StatusCreated == 201
StatusNoContent == 204
StatusBadRequest == 400
StatusUnauthorized == 401
StatusForbidden == 403
StatusNotFound == 404
StatusMethodNotAllowed == 405
StatusConflict == 409
StatusInternalServerError == 500
StatusServiceUnavailable == 503

ErrorTypeClient == "client_error"
ErrorTypeServer == "server_error"
ErrorTypeValidation == "validation_error"

\* A value of Go type error: nil, an *AppError, or any other error value.
\* Cause holds the text of the wrapped error ("" when there is none).
NilError ==
    [kind |-> "nil", Code |-> "", Message |-> <<>>, Type |-> "", Details |-> "",
     Validation |-> <<>>, StatusCode |-> 0, RequestID |-> "", Cause |-> ""]

NewAppError(code, message, statusCode, errorType) ==
    [kind |-> "app", Code |-> code, Message |-> message, Type |-> errorType,
     Details |-> "", Validation |-> <<>>, StatusCode |-> statusCode,
     RequestID |-> "", Cause |-> ""]

\* An error that is not an *AppError (fmt.Errorf, a driver error, ...).
UntypedError(text) ==
    [NilError EXCEPT !.kind = "untyped", !.Message = <<text>>]

WithCause(e, cause) == [e EXCEPT !.Cause = cause]

WithRequestID(e, requestID) == [e EXCEPT !.RequestID = requestID]

WithDetails(e, details) == [e EXCEPT !.Details = details]

\* A variant of NewAuthRequiredError that answers with the code and the
\* message of NewInvalidTokenError.
C5_Mutant_AuthRequiredAsInvalidToken ==
    NewAppError("INVALID_TOKEN", <<"Invalid or malformed token">>, StatusUnauthorized, ErrorTypeClient)

NewAuthRequiredError ==
    NewAppError("AUTH_REQUIRED", <<"Authentication required">>, StatusUnauthorized, ErrorTypeClient)

NewInvalidTokenError ==
    NewAppError("INVALID_TOKEN", <<"Invalid or malformed token">>, StatusUnauthorized, ErrorTypeClient)

NewTokenExpiredError ==
    NewAppError("TOKEN_EXPIRED", <<"Token has expired">>, StatusUnauthorized, ErrorTypeClient)

NewInvalidCredentialsError ==
    NewAppError("INVALID_CREDENTIALS", <<"Invalid username or password">>, StatusUnauthorized, ErrorTypeClient)

NewUserExistsError ==
    NewAppError("USER_EXISTS", <<"User already exists">>, StatusConflict, ErrorTypeClient)

NewValidationError(validationErrors) ==
    [NewAppError("VALIDATION_FAILED", <<"Input validation failed">>, StatusBadRequest, ErrorTypeValidation)
        EXCEPT !.Validation = validationErrors]

NewInvalidJSONError ==
    NewAppError("INVALID_JSON", <<"Invalid JSON format">>, StatusBadRequest, ErrorTypeClient)

NewMissingFieldError(field) ==
    NewAppError("MISSING_FIELD", <<"Missing required field: ", field>>, StatusBadRequest, ErrorTypeValidation)

NewInvalidFormatError(field, expected) ==
    NewAppError("INVALID_FORMAT", <<"Invalid format for field", field, "expected", expected>>,
                StatusBadRequest, ErrorTypeValidation)

NewNotFoundError(resource) ==
    NewAppError("NOT_FOUND", <<resource, " not found">>, StatusNotFound, ErrorTypeClient)

NewForbiddenError ==
    NewAppError("FORBIDDEN", <<"Access forbidden">>, StatusForbidden, ErrorTypeClient)

NewConflictError(message) ==
    NewAppError("CONFLICT", <<message>>, StatusConflict, ErrorTypeClient)

\* A variant of NewInternalError that files the error under the client
\* category.
C24_Mutant_InternalErrorClientCategory ==
    NewAppError("INTERNAL_ERROR", <<"Internal server error">>, StatusInternalServerError, ErrorTypeClient)

NewInternalError ==
    NewAppError("INTERNAL_ERROR", <<"Internal server error">>, StatusInternalServerError, ErrorTypeServer)

NewDatabaseError ==
    NewAppError("DATABASE_ERROR", <<"Database operation failed">>, StatusInternalServerError, ErrorTypeServer)

NewServiceUnavailableError ==
    NewAppError("SERVICE_UNAVAILABLE", <<"Service temporarily unavailable">>, StatusServiceUnavailable, ErrorTypeServer)

NewMethodNotAllowedError ==
    NewAppError("METHOD_NOT_ALLOWED", <<"Method not allowed">>, StatusMethodNotAllowed, ErrorTypeClient)

IsAppError(err) == err.kind = "app"

-----------------------------------------------------------------------------
(* net/http: the ResponseWriter of one request.                            *)
(* WriteHeader sends the status line once: a later call is dropped by      *)
(* net/http ("superfluous response.WriteHeader call") but is still a call. *)
(* Write sends the status line 200 first when none was sent, then appends  *)
(* the document to the body.                                               *)

NewResponseWriter ==
    [wroteHeader |-> FALSE,      \* the status line is on the wire
     status |-> 0,               \* the status the client receives
     writeHeaderCalls |-> 0,     \* status-line writes issued by the pipeline
     body |-> <<>>,              \* the documents written to the body, in order
     xRequestID |-> "",          \* response header X-Request-ID
     setCookie |-> <<>>,         \* Set-Cookie: auth_token values, in order
     wrapperStatus |-> StatusOK] \* responseWriterWrapper.statusCode

WriteHeader(w, code) ==
    IF w.wroteHeader
    THEN [w EXCEPT !.writeHeaderCalls = @ + 1]
    ELSE [w EXCEPT !.wroteHeader = TRUE, !.status = code, !.writeHeaderCalls = @ + 1]

Write(w, doc) ==
    LET w1 == IF w.wroteHeader THEN w ELSE WriteHeader(w, StatusOK)
    IN  [w1 EXCEPT !.body = Append(@, doc)]

\* A document of the response body: an ErrorResponse or a handler's JSON.
\* A variant of ErrorDoc that shows the cause of the error as its details.
C18_Mutant_ErrorDocShowsCause(appErr) ==
    [kind |-> "error", code |-> appErr.Code, message |-> appErr.Message,
     type |-> appErr.Type, details |-> appErr.Cause,
     validation |-> appErr.Validation, request_id |-> appErr.RequestID,
     what |-> "", tasks |-> <<>>, userID |-> 0, username |-> <<>>]

ErrorDoc(appErr) ==
    [kind |-> "error", code |-> appErr.Code, message |-> appErr.Message,
     type |-> appErr.Type, details |-> appErr.Details,
     validation |-> appErr.Validation, request_id |-> appErr.RequestID,
     what |-> "", tasks |-> <<>>, userID |-> 0, username |-> <<>>]

DataDoc(what, tasks, userID, username) ==
    [kind |-> "data", code |-> "", message |-> <<>>, type |-> "", details |-> "",
     validation |-> <<>>, request_id |-> "",
     what |-> what, tasks |-> tasks, userID |-> userID, username |-> username]

\* responseWriterWrapper.WriteHeader: records the code, then forwards it.
\* The wrapper does not override Write, so a status line sent by Write
\* leaves statusCode at its initial 200.
WrapperWriteHeader(w, code) ==
    [WriteHeader(w, code) EXCEPT !.wrapperStatus = code]

\* errors.WriteError: the status of the AppError, then the ErrorResponse.
\* wrapped tells whether w is the responseWriterWrapper (below
\* RequestLoggingMiddleware) or the server's own ResponseWriter.
WriteError(w, appErr, wrapped) ==
    IF wrapped
    THEN Write(WrapperWriteHeader(w, appErr.StatusCode), ErrorDoc(appErr))
    ELSE Write(WriteHeader(w, appErr.StatusCode), ErrorDoc(appErr))

-----------------------------------------------------------------------------
(* The request-scoped state one request accumulates on its way through the *)
(* chain: its ResponseWriter and what it handed to the logging sink and to *)
(* the metrics collaborator.                                               *)

NoClaims == [ok |-> FALSE, UserID |-> 0, Username |-> <<>>, ExpiresAt |-> 0]

\* context.Context of a request: the values under logger.RequestIDKey,
\* logger.UserIDKey and middleware.UserContextKey ("" / 0 / !ok when unset).
EmptyContext == [requestID |-> "", userID |-> 0, claims |-> NoClaims]

-----------------------------------------------------------------------------
(* logger *)

LevelRank(level) ==
    CASE level = "DEBUG" -> 0
      [] level = "INFO"  -> 1
      [] level = "WARN"  -> 2
      [] level = "ERROR" -> 3
      [] level = "FATAL" -> 4

\* Logger.minLevel is the state variable minLevel: Initialize sets it to
\* INFO unless LOG_LEVEL names another level, and nothing changes it later.
LogLevels == {"DEBUG", "INFO", "WARN", "ERROR", "FATAL"}

shouldLog(level) == LevelRank(level) >= LevelRank(minLevel)

\* One entry of the sink.  request_id and user_id come from the context;
\* fieldsRequestID is the "request_id" key of the entry's fields map, if any.
LogEntry(level, message, ctx, fieldsRequestID, statusCode) ==
    [level |-> level, message |-> message, request_id |-> ctx.requestID,
     user_id |-> ctx.userID, fieldsRequestID |-> fieldsRequestID,
     status_code |-> statusCode]

\* Logger.log, reached through DebugContext/InfoContext/WarnContext/ErrorContext.
LogContext(x, level, message, ctx, fieldsRequestID) ==
    IF ~shouldLog(level)
    THEN x
    ELSE [x EXCEPT !.log = Append(@, LogEntry(level, message, ctx, fieldsRequestID, 0))]

\* LogHTTPRequest writes its INFO entry without consulting shouldLog.
LogHTTPRequest(x, ctx, statusCode) ==
    [x EXCEPT !.log = Append(@, LogEntry("INFO", "HTTP Request", ctx, "", statusCode))]

\* LogDatabaseOperation: INFO when err is nil, ERROR otherwise.
LogDatabaseOperation(x, ctx, failed) ==
    IF failed
    THEN LogContext(x, "ERROR", "Database operation failed", ctx, "")
    ELSE LogContext(x, "INFO", "Database operation completed", ctx, "")

-----------------------------------------------------------------------------
(* metrics *)

RecordHTTPRequest(x, method, endpoint, statusCode) ==
    [x EXCEPT !.httpMetrics =
        Append(@, [method |-> method, endpoint |-> endpoint, status |-> statusCode])]

RecordError(x, errorType, errorCode) ==
    [x EXCEPT !.errMetrics = Append(@, [type |-> errorType, code |-> errorCode])]

-----------------------------------------------------------------------------
(* auth: the JWT component (auth/jwt.go on github.com/golang-jwt/jwt/v5).   *)
(*                                                                         *)
(* A string a client presents as a credential is either a well-formed JWT  *)
(* (text = "jwt": an algorithm, the key its signature was made with, and    *)
(* its claims as the JSON values the parser decodes) or any other text.    *)
(* A JSON number decodes to float64, a JSON string to string; Go ints in   *)
(* the range of SERIAL and of Unix seconds survive the float64 round trip  *)
(* unchanged, so a number is its integer value tagged with its Go type.    *)

TokenTTL == 86400    \* time.Hour * 24, in seconds

jwtSecret == "configured-secret"

Absent == [t |-> "absent", s |-> <<>>, n |-> 0]

JString(s) == [t |-> "string", s |-> s, n |-> 0]

JNumber(n) == [t |-> "float64", s |-> <<>>, n |-> n]

JWT(alg, key, user_id, username, exp) ==
    [text |-> "jwt", alg |-> alg, key |-> key,
     user_id |-> user_id, username |-> username, exp |-> exp]

\* A credential string that is not a JWT: "", "Bearer", "garbage", ...
Text(text) ==
    [text |-> text, alg |-> "", key |-> "",
     user_id |-> Absent, username |-> Absent, exp |-> Absent]

HMACAlgs == {"HS256", "HS384", "HS512"}

\* The algorithms for which the library has a registered signing method.
RegisteredAlgs == HMACAlgs \cup {"none", "RS256"}

\* A variant of GenerateToken that forgets the lifetime: exp is the time of
\* issuance.
C10_Mutant_GenerateTokenNoLifetime(user, t) ==
    JWT("HS256", jwtSecret, JNumber(user.id), JString(user.username), JNumber(t))

\* GenerateToken at clock reading t: HS256 over user_id, username and
\* exp = time.Now().Add(24h).Unix(), signed with jwtSecret.
GenerateToken(user, t) ==
    JWT("HS256", jwtSecret, JNumber(user.id), JString(user.username), JNumber(t + TokenTTL))

\* A variant of JwtParse whose keyfunc hands out jwtSecret without looking
\* at the signing method of the token.
C11_Mutant_JwtParseAnyMethod(tok, t) ==
    IF tok.text # "jwt" THEN "token is malformed"
    ELSE IF tok.alg \notin RegisteredAlgs THEN "signing method (alg) is unavailable"
    ELSE IF tok.key # jwtSecret THEN "signature is invalid"
    ELSE IF tok.exp.t = "absent" THEN ""
    ELSE IF tok.exp.t # "float64" THEN "exp is invalid"
    ELSE IF tok.exp.n = 0 THEN ""
    ELSE IF ~(t < tok.exp.n) THEN "token is expired"
    ELSE ""

\* jwt.Parse with the keyfunc of ValidateToken, at clock reading t: "" when
\* the token is accepted (token.Valid), the reason of the error otherwise.
\*   - the text must split into header.claims.signature and name a
\*     registered algorithm;
\*   - the keyfunc fails unless the method is a *SigningMethodHMAC;
\*   - the signature must verify under jwtSecret;
\*   - MapClaims validation: exp is not required; a present exp must be a
\*     number (parseNumericDate: any other type is an error, the number 0
\*     counts as no exp) and t must be before it.
JwtParse(tok, t) ==
    IF tok.text # "jwt" THEN "token is malformed"
    ELSE IF tok.alg \notin RegisteredAlgs THEN "signing method (alg) is unavailable"
    ELSE IF tok.alg \notin HMACAlgs THEN "methode de signature inattendue"
    ELSE IF tok.key # jwtSecret THEN "signature is invalid"
    ELSE IF tok.exp.t = "absent" THEN ""
    ELSE IF tok.exp.t # "float64" THEN "exp is invalid"
    ELSE IF tok.exp.n = 0 THEN ""
    ELSE IF ~(t < tok.exp.n) THEN "token is expired"
    ELSE ""

\* ValidateToken at clock reading t.  After a successful Parse the three
\* claims are read with unchecked type assertions, claims[k].(float64) and
\* claims[k].(string): a claim that is absent or of another type panics.
ValidateToken(tok, t) ==
    LET parseErr == JwtParse(tok, t)
    IN  IF parseErr # ""
        THEN [panic |-> FALSE, err |-> UntypedError(parseErr), claims |-> NoClaims]
        ELSE IF \/ tok.user_id.t # "float64"
                \/ tok.username.t # "string"
                \/ tok.exp.t # "float64"
        THEN [panic |-> TRUE, err |-> NilError, claims |-> NoClaims]
        ELSE [panic |-> FALSE, err |-> NilError,
              claims |-> [ok |-> TRUE, UserID |-> tok.user_id.n,
                          Username |-> tok.username.s, ExpiresAt |-> tok.exp.n]]

\* The exchange of a request before the chain has run.
NewExchange ==
    [w |-> NewResponseWriter,
     log |-> <<>>,                 \* entries written to the logging sink
     httpMetrics |-> <<>>,         \* RecordHTTPRequest calls
     errMetrics |-> <<>>,          \* RecordError calls
     handlerCalls |-> 0,           \* invocations of the business handler
     validateCalls |-> 0,          \* invocations of auth.ValidateToken
     token |-> Text(""),           \* the string handed to ValidateToken
     verifiedAt |-> 0,             \* the clock ValidateToken compared exp with
     claims |-> NoClaims]          \* the Claims the business handler found in its context

-----------------------------------------------------------------------------
(* validation: the field rules and the three request validators.           *)
(* A rule yields <<>> (nil) or <<message>>; ValidateField appends one      *)
(* ValidationError per rule that reports.                                  *)

Lower == {"a", "b", "c", "l", "i", "o", "s", "w", "r", "d", "x", "t"}

Upper == {"A", "P", "Q"}

Digit == {"0", "1", "2"}

Letter == Lower \cup Upper

Space == {" "}

TrimLeft(s) ==
    LET keep == {i \in 1..Len(s) : s[i] \notin Space}
    IN  IF keep = {} THEN <<>>
        ELSE SubSeq(s, CHOOSE i \in keep : \A j \in keep : i <= j, Len(s))

TrimSpace(s) ==
    LET keep == {i \in 1..Len(s) : s[i] \notin Space}
    IN  IF keep = {} THEN <<>>
        ELSE SubSeq(s, CHOOSE i \in keep : \A j \in keep : i <= j,
                       CHOOSE i \in keep : \A j \in keep : i >= j)

Required(value) ==
    IF TrimSpace(value) = <<>> THEN <<"This field is required">> ELSE <<>>

MinLength(min, value) ==
    IF Len(TrimSpace(value)) < min THEN <<"Must be at least min characters long">> ELSE <<>>

MaxLength(max, value) ==
    IF Len(value) > max THEN <<"Must be no more than max characters long">> ELSE <<>>

\* atext of RFC 5322, as far as the alphabet goes.
IsAtext(c) == c \in Letter \cup Digit \cup {"_"}

DotAtom(s) ==
    /\ Len(s) > 0
    /\ s[1] # "." /\ s[Len(s)] # "."
    /\ \A i \in 1..Len(s) : IsAtext(s[i]) \/ s[i] = "."
    /\ \A i \in 1..(Len(s) - 1) : ~(s[i] = "." /\ s[i + 1] = ".")

\* net/mail ParseAddress on a text without quotes, angle brackets or
\* comments: local-part "@" domain, both dot-atoms; white space is skipped
\* before the local part and before the domain.
ParseAddress(s) ==
    LET t == TrimLeft(s)
    IN  \E i \in 1..Len(t) :
            /\ t[i] = "@"
            /\ DotAtom(SubSeq(t, 1, i - 1))
            /\ DotAtom(TrimSpace(SubSeq(t, i + 1, Len(t))))

Email(value) ==
    LET str == TrimSpace(value)
    IN  IF str = <<>> THEN <<>>
        ELSE IF ~ParseAddress(str) THEN <<"Must be a valid email address">>
        ELSE <<>>

Username(value) ==
    LET str == TrimSpace(value)
    IN  IF str = <<>> THEN <<>>
        ELSE IF Len(str) < 3 \/ Len(str) > 30
             THEN <<"Username must be between 3 and 30 characters">>
        ELSE IF str[1] \notin Letter
             THEN <<"Username must start with a letter">>
        ELSE IF ~(\A i \in 2..Len(str) : str[i] \in Letter \cup Digit \cup {"_"})
             THEN <<"Username can only contain letters, numbers, and underscores">>
        ELSE <<>>

Password(value) ==
    IF value = <<>> THEN <<>>
    ELSE IF Len(value) < 8 THEN <<"Password must be at least 8 characters long">>
    ELSE IF Len(value) > 128 THEN <<"Password must be no more than 128 characters long">>
    ELSE IF ~(\E i \in 1..Len(value) : value[i] \in Upper)
         THEN <<"Password must contain at least one uppercase letter">>
    ELSE IF ~(\E i \in 1..Len(value) : value[i] \in Lower)
         THEN <<"Password must contain at least one lowercase letter">>
    ELSE IF ~(\E i \in 1..Len(value) : value[i] \in Digit)
         THEN <<"Password must contain at least one number">>
    ELSE <<>>

NotEmpty(value) ==
    IF TrimSpace(value) = <<>> THEN <<"This field cannot be empty">> ELSE <<>>

\* ValidateField: the reports of the rules, in rule order, under the field's name.
ValidateField(errs, field, reports) ==
    LET flat[i \in 0..Len(reports)] ==
            IF i = 0 THEN errs
            ELSE IF reports[i] = <<>> THEN flat[i - 1]
            ELSE Append(flat[i - 1], [Field |-> field, Message |-> reports[i][1]])
    IN  flat[Len(reports)]

\* Validator.GetError
GetError(errs) ==
    IF errs = <<>> THEN NilError ELSE NewValidationError(errs)

\* A variant of ValidateRegisterRequest that stops at the first field with
\* a report.
C13_Mutant_ValidateRegisterRequestFailFast(username, email, password) ==
    LET v1 == ValidateField(<<>>, "username", <<Required(username), Username(username)>>)
        v2 == ValidateField(<<>>, "email", <<Required(email), Email(email)>>)
        v3 == ValidateField(<<>>, "password", <<Required(password), Password(password)>>)
    IN  GetError(IF v1 # <<>> THEN v1 ELSE IF v2 # <<>> THEN v2 ELSE v3)

ValidateRegisterRequest(username, email, password) ==
    LET v1 == ValidateField(<<>>, "username", <<Required(username), Username(username)>>)
        v2 == ValidateField(v1, "email", <<Required(email), Email(email)>>)
        v3 == ValidateField(v2, "password", <<Required(password), Password(password)>>)
    IN  GetError(v3)

ValidateLoginRequest(email, password) ==
    LET v1 == ValidateField(<<>>, "email", <<Required(email), Email(email)>>)
        v2 == ValidateField(v1, "password", <<Required(password)>>)
    IN  GetError(v2)

ValidateTaskInput(title, description) ==
    LET v1 == ValidateField(<<>>, "title",
                            <<Required(title), NotEmpty(title), MaxLength(200, title)>>)
        v2 == ValidateField(v1, "description", <<MaxLength(1000, description)>>)
    IN  GetError(v2)

-----------------------------------------------------------------------------
(* database: the users and tasks relations (init.sql, migrations).         *)
(*   users(id SERIAL PRIMARY KEY, username UNIQUE, email UNIQUE, password) *)
(*   tasks(id SERIAL PRIMARY KEY, title, description, completed,           *)
(*         user_id REFERENCES users(id))                                   *)
(* db.userSeq and db.taskSeq are the next values of the two sequences; a   *)
(* sequence value is consumed by an INSERT even when the INSERT fails.     *)
(* The storage collaborator is assumed available: a statement fails only   *)
(* by violating a constraint of the schema.                                *)

EmptyDB == [users |-> {}, userSeq |-> 1, tasks |-> {}, taskSeq |-> 1]

\* bcrypt.GenerateFromPassword / CompareHashAndPassword
Bcrypt(password) == [bcrypt |-> password]

CompareHashAndPassword(hash, password) == hash.bcrypt = password

\* SELECT id FROM users WHERE username = $1 OR email = $2
SelectUserByNameOrEmail(d, username, email) ==
    {u \in d.users : u.username = username \/ u.email = email}

\* A users table without its UNIQUE constraints.
C27_Mutant_NoUniqueConstraint(d, username, email) == FALSE

\* The UNIQUE constraints of users.
UniqueViolation(d, username, email) ==
    \E u \in d.users : u.username = username \/ u.email = email

\* The rows of a set of tasks, highest id first.
RECURSIVE TaskList(_)
TaskList(S) ==
    IF S = {} THEN <<>>
    ELSE LET top == CHOOSE t \in S : \A o \in S : o.id <= t.id
         IN  <<top>> \o TaskList(S \ {top})

-----------------------------------------------------------------------------
(* handlers.  A handler runs on the exchange x with its request context,   *)
(* the request and env = [db, now, fault, selectFound], and yields         *)
(* [x, err, panic, db]: the exchange and the database as it leaves them,   *)
(* the error it returns, and whether it panicked instead of returning.     *)

Result(x, err, panic, d) == [x |-> x, err |-> err, panic |-> panic, db |-> d]

SetCookie(x, value) == [x EXCEPT !.w.setCookie = Append(@, value)]

HandlerWriteHeader(x, code) == [x EXCEPT !.w = WrapperWriteHeader(@, code)]

HandlerWrite(x, doc) == [x EXCEPT !.w = Write(@, doc)]

\* ctx.Value(middleware.UserContextKey).(*models.Claims) failed
UserContextMissing(x, ctx, env) ==
    Result(LogContext(x, "ERROR", "Missing user context in authenticated request", ctx, ""),
           WithDetails(NewInternalError, "user_context_missing"), FALSE, env.db)

handleHome(x, ctx, req, env) ==
    IF req.path # [prefix |-> "/", tail |-> <<>>]
    THEN Result(x, NewNotFoundError("Page"), FALSE, env.db)
    ELSE Result(HandlerWrite(LogContext(x, "DEBUG", "Home endpoint accessed", ctx, ""),
                             DataDoc("home", <<>>, 0, <<>>)),
                NilError, FALSE, env.db)

\* HandleRegister.  env.selectFound is what its SELECT returned; env.db is
\* the database its INSERT runs on.
HandleRegister(x, ctx, req, env) ==
    IF req.method # "POST" THEN Result(x, NewMethodNotAllowedError, FALSE, env.db)
    ELSE IF ~req.body.ok
    THEN Result(LogContext(x, "WARN", "Invalid JSON in register request", ctx, ""),
                NewInvalidJSONError, FALSE, env.db)
    ELSE LET b == req.body
             validationErr == ValidateRegisterRequest(b.username, b.email, b.password)
             x1 == LogDatabaseOperation(x, ctx, ~env.selectFound)
         IN  IF validationErr.kind # "nil" THEN Result(x, validationErr, FALSE, env.db)
             ELSE IF env.selectFound THEN Result(x1, NewUserExistsError, FALSE, env.db)
             ELSE IF UniqueViolation(env.db, b.username, b.email)
             THEN Result(LogContext(LogDatabaseOperation(x1, ctx, TRUE),
                                    "ERROR", "Error creating user", ctx, ""),
                         WithCause(NewDatabaseError, "duplicate key value violates unique constraint"),
                         FALSE,
                         [env.db EXCEPT !.userSeq = @ + 1])
             ELSE LET newUser == [id |-> env.db.userSeq, username |-> b.username,
                                  email |-> b.email, password |-> Bcrypt(b.password)]
                      x2 == LogDatabaseOperation(x1, ctx, FALSE)
                      x3 == SetCookie(x2, GenerateToken(newUser, env.now))
                      x4 == IF ctx.requestID # ""
                            THEN LogContext(x3, "INFO", "User registered successfully",
                                            ctx, ctx.requestID)
                            ELSE x3
                      x5 == HandlerWriteHeader(x4, StatusCreated)
                      x6 == HandlerWrite(x5, DataDoc("register", <<>>, newUser.id, newUser.username))
                  IN  Result(x6, NilError, FALSE,
                             [env.db EXCEPT !.users = @ \cup {newUser}, !.userSeq = @ + 1])

\* A variant of HandleLogin that tells a client that no account has the
\* email it sent.
C15_Mutant_HandleLoginNamesUnknownEmail(x, ctx, req, env) ==
    IF req.method # "POST" THEN Result(x, NewMethodNotAllowedError, FALSE, env.db)
    ELSE IF ~req.body.ok
    THEN Result(LogContext(x, "WARN", "Invalid JSON in login request", ctx, ""),
                NewInvalidJSONError, FALSE, env.db)
    ELSE LET b == req.body
             validationErr == ValidateLoginRequest(b.email, b.password)
             found == {u \in env.db.users : u.email = b.email}
             x1 == LogDatabaseOperation(x, ctx, found = {})
         IN  IF validationErr.kind # "nil" THEN Result(x, validationErr, FALSE, env.db)
             ELSE IF found = {}
             THEN Result(LogContext(x1, "WARN", "Login attempt with non-existent email", ctx, ""),
                         NewNotFoundError("User"), FALSE, env.db)
             ELSE LET foundUser == CHOOSE u \in found : TRUE
                  IN  IF ~CompareHashAndPassword(foundUser.password, b.password)
                      THEN Result(LogContext(x1, "WARN", "Login attempt with invalid password", ctx, ""),
                                  NewInvalidCredentialsError, FALSE, env.db)
                      ELSE LET x2 == LogDatabaseOperation(x1, ctx, FALSE)
                               x3 == SetCookie(x2, GenerateToken(foundUser, env.now))
                               x4 == LogContext(x3, "INFO", "User logged in successfully", ctx, "")
                               x5 == HandlerWrite(x4, DataDoc("login", <<>>, foundUser.id,
                                                              foundUser.username))
                           IN  Result(x5, NilError, FALSE, env.db)

HandleLogin(x, ctx, req, env) ==
    IF req.method # "POST" THEN Result(x, NewMethodNotAllowedError, FALSE, env.db)
    ELSE IF ~req.body.ok
    THEN Result(LogContext(x, "WARN", "Invalid JSON in login request", ctx, ""),
                NewInvalidJSONError, FALSE, env.db)
    ELSE LET b == req.body
             validationErr == ValidateLoginRequest(b.email, b.password)
             found == {u \in env.db.users : u.email = b.email}
             x1 == LogDatabaseOperation(x, ctx, found = {})
         IN  IF validationErr.kind # "nil" THEN Result(x, validationErr, FALSE, env.db)
             ELSE IF found = {}
             THEN Result(LogContext(x1, "WARN", "Login attempt with non-existent email", ctx, ""),
                         NewInvalidCredentialsError, FALSE, env.db)
             ELSE LET foundUser == CHOOSE u \in found : TRUE
                  IN  IF ~CompareHashAndPassword(foundUser.password, b.password)
                      THEN Result(LogContext(x1, "WARN", "Login attempt with invalid password", ctx, ""),
                                  NewInvalidCredentialsError, FALSE, env.db)
                      ELSE LET x2 == LogDatabaseOperation(x1, ctx, FALSE)
                               x3 == SetCookie(x2, GenerateToken(foundUser, env.now))
                               x4 == LogContext(x3, "INFO", "User logged in successfully", ctx, "")
                               x5 == HandlerWrite(x4, DataDoc("login", <<>>, foundUser.id,
                                                              foundUser.username))
                           IN  Result(x5, NilError, FALSE, env.db)

\* A variant of HandleLogout that writes to the storage: it deletes the
\* accounts.
C12_Mutant_HandleLogoutWritesStorage(x, ctx, req, env) ==
    IF req.method # "POST" THEN Result(x, NewMethodNotAllowedError, FALSE, env.db)
    ELSE LET x1 == LogContext(x, "INFO", "User logout requested", ctx, "")
             x2 == SetCookie(x1, Text(""))
         IN  Result(HandlerWrite(x2, DataDoc("logout", <<>>, 0, <<>>)), NilError, FALSE,
                    [env.db EXCEPT !.users = {}])

HandleLogout(x, ctx, req, env) ==
    IF req.method # "POST" THEN Result(x, NewMethodNotAllowedError, FALSE, env.db)
    ELSE LET x1 == LogContext(x, "INFO", "User logout requested", ctx, "")
             x2 == SetCookie(x1, Text(""))
         IN  Result(HandlerWrite(x2, DataDoc("logout", <<>>, 0, <<>>)), NilError, FALSE, env.db)

HandleGetUser(x, ctx, req, env) ==
    IF req.method # "GET" THEN Result(x, NewMethodNotAllowedError, FALSE, env.db)
    ELSE IF ~ctx.claims.ok THEN UserContextMissing(x, ctx, env)
    ELSE Result(HandlerWrite(x, DataDoc("claims", <<>>, ctx.claims.UserID, ctx.claims.Username)),
                NilError, FALSE, env.db)

\* A variant of OwnedTask whose WHERE clause leaves out user_id.
C4_Mutant_OwnedTaskAnyOwner(d, id, userID) == {t \in d.tasks : t.id = id}

\* The rows a task statement sees: WHERE id = $1 AND user_id = $2.
OwnedTask(d, id, userID) == {t \in d.tasks : t.id = id /\ t.user_id = userID}

getAllUserTasks(x, ctx, req, env) ==
    IF ~ctx.claims.ok THEN UserContextMissing(x, ctx, env)
    ELSE LET userTasks == TaskList({t \in env.db.tasks : t.user_id = ctx.claims.UserID})
             x1 == LogDatabaseOperation(x, ctx, FALSE)
             x2 == LogContext(x1, "DEBUG", "Retrieved user tasks", ctx, "")
         IN  Result(HandlerWrite(x2, DataDoc("tasks", userTasks, 0, ctx.claims.Username)),
                    NilError, FALSE, env.db)

\* A variant of createTask that takes the owner of the new task from the
\* request body when the body names one.
C26_Mutant_createTaskOwnerFromBody(x, ctx, req, env) ==
    IF ~ctx.claims.ok THEN UserContextMissing(x, ctx, env)
    ELSE IF ~req.body.ok
    THEN Result(LogContext(x, "WARN", "Invalid JSON in create task request", ctx, ""),
                NewInvalidJSONError, FALSE, env.db)
    ELSE LET b == req.body
             validationErr == ValidateTaskInput(b.title, b.description)
             createdTask == [id |-> env.db.taskSeq, title |-> b.title,
                             description |-> b.description, completed |-> b.completed,
                             user_id |-> IF b.user_id # 0 THEN b.user_id
                                         ELSE ctx.claims.UserID]
         IN  IF validationErr.kind # "nil" THEN Result(x, validationErr, FALSE, env.db)
             ELSE LET x1 == LogDatabaseOperation(x, ctx, FALSE)
                      x2 == LogContext(x1, "INFO", "Task created successfully", ctx, "")
                      x3 == HandlerWriteHeader(x2, StatusCreated)
                  IN  Result(HandlerWrite(x3, DataDoc("task", <<createdTask>>, 0, <<>>)),
                             NilError, FALSE,
                             [env.db EXCEPT !.tasks = @ \cup {createdTask}, !.taskSeq = @ + 1])

createTask(x, ctx, req, env) ==
    IF ~ctx.claims.ok THEN UserContextMissing(x, ctx, env)
    ELSE IF ~req.body.ok
    THEN Result(LogContext(x, "WARN", "Invalid JSON in create task request", ctx, ""),
                NewInvalidJSONError, FALSE, env.db)
    ELSE LET b == req.body
             validationErr == ValidateTaskInput(b.title, b.description)
             createdTask == [id |-> env.db.taskSeq, title |-> b.title,
                             description |-> b.description, completed |-> b.completed,
                             user_id |-> ctx.claims.UserID]
         IN  IF validationErr.kind # "nil" THEN Result(x, validationErr, FALSE, env.db)
             \* user_id REFERENCES users(id)
             ELSE IF ~(\E u \in env.db.users : u.id = ctx.claims.UserID)
             THEN Result(LogContext(LogDatabaseOperation(x, ctx, TRUE),
                                    "ERROR", "Error creating task", ctx, ""),
                         WithCause(NewDatabaseError, "violates foreign key constraint"),
                         FALSE,
                         [env.db EXCEPT !.taskSeq = @ + 1])
             ELSE LET x1 == LogDatabaseOperation(x, ctx, FALSE)
                      x2 == LogContext(x1, "INFO", "Task created successfully", ctx, "")
                      x3 == HandlerWriteHeader(x2, StatusCreated)
                  IN  Result(HandlerWrite(x3, DataDoc("task", <<createdTask>>, 0, <<>>)),
                             NilError, FALSE,
                             [env.db EXCEPT !.tasks = @ \cup {createdTask}, !.taskSeq = @ + 1])

getTaskByID(x, ctx, req, env, id) ==
    IF ~ctx.claims.ok THEN UserContextMissing(x, ctx, env)
    ELSE LET rows == OwnedTask(env.db, id, ctx.claims.UserID)
             x1 == LogDatabaseOperation(x, ctx, rows = {})
         IN  IF rows = {}
             THEN Result(LogContext(x1, "WARN", "Task not found or access denied", ctx, ""),
                         NewNotFoundError("Task"), FALSE, env.db)
             ELSE Result(HandlerWrite(x1, DataDoc("task", TaskList(rows), 0, <<>>)),
                         NilError, FALSE, env.db)

updateTask(x, ctx, req, env, id) ==
    IF ~ctx.claims.ok THEN UserContextMissing(x, ctx, env)
    ELSE IF ~req.body.ok
    THEN Result(LogContext(x, "WARN", "Invalid JSON in update task request", ctx, ""),
                NewInvalidJSONError, FALSE, env.db)
    ELSE LET b == req.body
             validationErr == ValidateTaskInput(b.title, b.description)
             rows == OwnedTask(env.db, id, ctx.claims.UserID)
             result == [id |-> id, title |-> b.title, description |-> b.description,
                        completed |-> b.completed, user_id |-> ctx.claims.UserID]
             x1 == LogDatabaseOperation(x, ctx, rows = {})
         IN  IF validationErr.kind # "nil" THEN Result(x, validationErr, FALSE, env.db)
             ELSE IF rows = {}
             THEN Result(LogContext(x1, "WARN", "Task not found for update or access denied", ctx, ""),
                         NewNotFoundError("Task"), FALSE, env.db)
             ELSE Result(HandlerWrite(LogContext(x1, "INFO", "Task updated successfully", ctx, ""),
                                      DataDoc("task", <<result>>, 0, <<>>)),
                         NilError, FALSE,
                         [env.db EXCEPT !.tasks = (@ \ rows) \cup {result}])

\* A variant of deleteTask that answers 204 and leaves the row.
C28_Mutant_deleteTaskKeepsRow(x, ctx, req, env, id) ==
    IF ~ctx.claims.ok THEN UserContextMissing(x, ctx, env)
    ELSE LET rows == OwnedTask(env.db, id, ctx.claims.UserID)
             x1 == LogDatabaseOperation(x, ctx, FALSE)
         IN  IF rows = {}
             THEN Result(LogContext(x1, "WARN", "Task not found for deletion or access denied", ctx, ""),
                         NewNotFoundError("Task"), FALSE, env.db)
             ELSE Result(HandlerWriteHeader(LogContext(x1, "INFO", "Task deleted successfully", ctx, ""),
                                            StatusNoContent),
                         NilError, FALSE, env.db)

deleteTask(x, ctx, req, env, id) ==
    IF ~ctx.claims.ok THEN UserContextMissing(x, ctx, env)
    ELSE LET rows == OwnedTask(env.db, id, ctx.claims.UserID)
             x1 == LogDatabaseOperation(x, ctx, FALSE)
         IN  IF rows = {}
             THEN Result(LogContext(x1, "WARN", "Task not found for deletion or access denied", ctx, ""),
                         NewNotFoundError("Task"), FALSE, env.db)
             ELSE Result(HandlerWriteHeader(LogContext(x1, "INFO", "Task deleted successfully", ctx, ""),
                                            StatusNoContent),
                         NilError, FALSE,
                         [env.db EXCEPT !.tasks = @ \ rows])

HandleTasks(x, ctx, req, env) ==
    CASE req.method = "GET"  -> getAllUserTasks(x, ctx, req, env)
      [] req.method = "POST" -> createTask(x, ctx, req, env)
      [] OTHER               -> Result(x, NewMethodNotAllowedError, FALSE, env.db)

\* strconv.Atoi on the decimal strings over Digit with an optional sign:
\* ok is FALSE when the text is not a number.
RECURSIVE DigitsValue(_)
DigitsValue(s) ==
    IF s = <<>> THEN 0
    ELSE 10 * DigitsValue(SubSeq(s, 1, Len(s) - 1))
         + (CASE s[Len(s)] = "0" -> 0 [] s[Len(s)] = "1" -> 1 [] s[Len(s)] = "2" -> 2)

Atoi(s) ==
    LET signed == s # <<>> /\ s[1] \in {"+", "-"}
        digits == IF signed THEN Tail(s) ELSE s
    IN  IF digits = <<>> \/ \E i \in 1..Len(digits) : digits[i] \notin Digit
        THEN [ok |-> FALSE, n |-> 0]
        ELSE [ok |-> TRUE,
              n |-> IF signed /\ s[1] = "-" THEN 0 - DigitsValue(digits) ELSE DigitsValue(digits)]

\* req.path.tail is the path after the pattern "/api/tasks/".
HandleTaskByID(x, ctx, req, env) ==
    LET path == req.path.tail
        id == Atoi(path)
    IN  IF path = <<>> THEN Result(x, NewMissingFieldError("task_id"), FALSE, env.db)
        ELSE IF ~id.ok
        THEN Result(LogContext(x, "WARN", "Invalid task ID format", ctx, ""),
                    NewInvalidFormatError("task_id", "integer"), FALSE, env.db)
        ELSE CASE req.method = "GET"    -> getTaskByID(x, ctx, req, env, id.n)
               [] req.method = "PUT"    -> updateTask(x, ctx, req, env, id.n)
               [] req.method = "DELETE" -> deleteTask(x, ctx, req, env, id.n)
               [] OTHER                 -> Result(x, NewMethodNotAllowedError, FALSE, env.db)

\* HandleGetProfile / HandleUpdateProfile.  The profile columns
\* (first_name, last_name, avatar_url) are read and written by no other
\* operation and are left out of the users relation.
HandleGetProfile(x, ctx, req, env) ==
    IF req.method # "GET" THEN Result(x, NewMethodNotAllowedError, FALSE, env.db)
    ELSE IF ~ctx.claims.ok THEN UserContextMissing(x, ctx, env)
    ELSE LET found == {u \in env.db.users : u.id = ctx.claims.UserID}
             x1 == LogDatabaseOperation(x, ctx, found = {})
         IN  IF found = {} THEN Result(x1, NewNotFoundError("User"), FALSE, env.db)
             ELSE LET user == CHOOSE u \in found : TRUE
                  IN  Result(HandlerWrite(LogContext(x1, "INFO", "User profile retrieved", ctx, ""),
                                          DataDoc("profile", <<>>, user.id, user.username)),
                             NilError, FALSE, env.db)

HandleUpdateProfile(x, ctx, req, env) ==
    IF req.method # "PUT" THEN Result(x, NewMethodNotAllowedError, FALSE, env.db)
    ELSE IF ~ctx.claims.ok THEN UserContextMissing(x, ctx, env)
    ELSE IF ~req.body.ok
    THEN Result(LogContext(x, "WARN", "Invalid JSON in update profile request", ctx, ""),
                NewInvalidJSONError, FALSE, env.db)
    ELSE LET found == {u \in env.db.users : u.id = ctx.claims.UserID}
             x1 == LogDatabaseOperation(x, ctx, FALSE)
             x2 == LogDatabaseOperation(x1, ctx, found = {})
         IN  IF found = {}
             THEN Result(LogContext(x2, "ERROR", "Database error fetching updated profile", ctx, ""),
                         WithCause(NewDatabaseError, "sql: no rows in result set"), FALSE, env.db)
             ELSE LET user == CHOOSE u \in found : TRUE
                  IN  Result(HandlerWrite(LogContext(x2, "INFO", "User profile updated successfully",
                                                     ctx, ""),
                                          DataDoc("profile", <<>>, user.id, user.username)),
                             NilError, FALSE, env.db)

handleProfile(x, ctx, req, env) ==
    CASE req.method = "GET" -> HandleGetProfile(x, ctx, req, env)
      [] req.method = "PUT" -> HandleUpdateProfile(x, ctx, req, env)
      [] OTHER              -> Result(x, NewMethodNotAllowedError, FALSE, env.db)

-----------------------------------------------------------------------------
(* middleware *)

\* An ErrorHandler as the middleware sees it: a function that may write to
\* the ResponseWriter and then returns nil, returns an error, or panics.
\* env.fault selects what the handler registered under name does beyond its
\* code: "none" runs the code as written; "untyped" returns an error that
\* is not an *AppError; "panicEntry" panics before anything is written;
\* "panicLate" runs the code and panics after its last write.
ErrorHandler(name, x, ctx, req, env) ==
    LET x0 == [x EXCEPT !.handlerCalls = @ + 1, !.claims = ctx.claims]
        r == CASE name = "handleHome"     -> handleHome(x0, ctx, req, env)
               [] name = "HandleRegister" -> HandleRegister(x0, ctx, req, env)
               [] name = "HandleLogin"    -> HandleLogin(x0, ctx, req, env)
               [] name = "HandleLogout"   -> HandleLogout(x0, ctx, req, env)
               [] name = "HandleTasks"    -> HandleTasks(x0, ctx, req, env)
               [] name = "HandleTaskByID" -> HandleTaskByID(x0, ctx, req, env)
               [] name = "HandleGetUser"  -> HandleGetUser(x0, ctx, req, env)
               [] name = "handleProfile"  -> handleProfile(x0, ctx, req, env)
    IN  CASE env.fault = "panicEntry" -> Result(x0, NilError, TRUE, env.db)
          [] env.fault = "untyped"    -> Result(x0, UntypedError("unexpected failure"), FALSE, env.db)
          [] OTHER                    -> [r EXCEPT !.panic = @ \/ env.fault = "panicLate"]

\* A variant of AuthHandler that runs the handler before it looks at the
\* credential and then reports the credential missing.
C6_Mutant_AuthHandlerRunsHandlerFirst(name, x, ctx, req, env) ==
    LET Rejected(r) ==
            Result(r.x, WithDetails(NewAuthRequiredError, "Token required in cookie or Authorization header"),
                   FALSE, r.db)
    IN  Rejected(ErrorHandler(name, x, ctx, req, env))

\* A variant of AuthHandler that looks at the Authorization header first
\* and at the cookie only when there is no header.
C16_Mutant_AuthHandlerHeaderFirst(name, x, ctx, req, env) ==
    LET authHeader == req.authorization
        fromCookie == authHeader = <<>> /\ req.cookie.present /\ req.cookie.value.text # ""
        token == IF fromCookie THEN req.cookie.value ELSE authHeader[2]
        v == ValidateToken(token, env.now)
        x1 == [x EXCEPT !.validateCalls = @ + 1, !.token = token, !.verifiedAt = env.now]
    IN  IF ~fromCookie /\ authHeader = <<>>
        THEN Result(LogContext(x, "WARN", "Authentication attempt without token", ctx, ""),
                    WithDetails(NewAuthRequiredError, "Token required in cookie or Authorization header"),
                    FALSE, env.db)
        ELSE IF ~fromCookie /\ (Len(authHeader) # 2 \/ authHeader[1] # Text("Bearer"))
        THEN Result(LogContext(x, "WARN", "Invalid token format in Authorization header", ctx, ""),
                    WithDetails(NewInvalidTokenError, "Bearer <token>"), FALSE, env.db)
        ELSE IF v.panic THEN Result(x1, NilError, TRUE, env.db)
        ELSE IF v.err.kind # "nil"
        THEN Result(LogContext(x1, "WARN", "Invalid or expired token", ctx, ""),
                    WithCause(NewInvalidTokenError, v.err.Message[1]), FALSE, env.db)
        ELSE ErrorHandler(name, x1,
                          [ctx EXCEPT !.claims = v.claims, !.userID = v.claims.UserID],
                          req, env)

\* A variant of AuthHandler that takes the second part of any two-part
\* Authorization header as the token, whatever the first part.
C17_Mutant_AuthHandlerAnyScheme(name, x, ctx, req, env) ==
    LET fromCookie == req.cookie.present /\ req.cookie.value.text # ""
        authHeader == req.authorization
        token == IF fromCookie THEN req.cookie.value ELSE authHeader[2]
        v == ValidateToken(token, env.now)
        x1 == [x EXCEPT !.validateCalls = @ + 1, !.token = token, !.verifiedAt = env.now]
    IN  IF ~fromCookie /\ authHeader = <<>>
        THEN Result(LogContext(x, "WARN", "Authentication attempt without token", ctx, ""),
                    WithDetails(NewAuthRequiredError, "Token required in cookie or Authorization header"),
                    FALSE, env.db)
        ELSE IF ~fromCookie /\ Len(authHeader) # 2
        THEN Result(LogContext(x, "WARN", "Invalid token format in Authorization header", ctx, ""),
                    WithDetails(NewInvalidTokenError, "Bearer <token>"), FALSE, env.db)
        ELSE IF v.panic THEN Result(x1, NilError, TRUE, env.db)
        ELSE IF v.err.kind # "nil"
        THEN Result(LogContext(x1, "WARN", "Invalid or expired token", ctx, ""),
                    WithCause(NewInvalidTokenError, v.err.Message[1]), FALSE, env.db)
        ELSE ErrorHandler(name, x1,
                          [ctx EXCEPT !.claims = v.claims, !.userID = v.claims.UserID],
                          req, env)

\* The function AuthMiddleware hands to ErrorMiddleware.
AuthHandler(name, x, ctx, req, env) ==
    LET fromCookie == req.cookie.present /\ req.cookie.value.text # ""
        authHeader == req.authorization
        token == IF fromCookie THEN req.cookie.value ELSE authHeader[2]
        v == ValidateToken(token, env.now)
        x1 == [x EXCEPT !.validateCalls = @ + 1, !.token = token, !.verifiedAt = env.now]
    IN  IF ~fromCookie /\ authHeader = <<>>
        THEN Result(LogContext(x, "WARN", "Authentication attempt without token", ctx, ""),
                    WithDetails(NewAuthRequiredError, "Token required in cookie or Authorization header"),
                    FALSE, env.db)
        ELSE IF ~fromCookie /\ (Len(authHeader) # 2 \/ authHeader[1] # Text("Bearer"))
        THEN Result(LogContext(x, "WARN", "Invalid token format in Authorization header", ctx, ""),
                    WithDetails(NewInvalidTokenError, "Bearer <token>"), FALSE, env.db)
        ELSE IF v.panic THEN Result(x1, NilError, TRUE, env.db)
        ELSE IF v.err.kind # "nil"
        THEN Result(LogContext(x1, "WARN", "Invalid or expired token", ctx, ""),
                    WithCause(NewInvalidTokenError, v.err.Message[1]), FALSE, env.db)
        ELSE ErrorHandler(name, x1,
                          [ctx EXCEPT !.claims = v.claims, !.userID = v.claims.UserID],
                          req, env)

normalizeEndpoint(path) ==
    IF path.prefix = "/api/tasks/" /\ path.tail # <<>>
    THEN "/api/tasks/{id}"
    ELSE path.prefix

handleError(x, ctx, err, requestID) ==
    IF IsAppError(err)
    THEN LET appErr == WithRequestID(err, requestID)
             x1 == RecordError(x, appErr.Type, appErr.Code)
             x2 == IF appErr.Type = ErrorTypeServer
                   THEN LogContext(x1, "ERROR", "Server error occurred", ctx, "")
                   ELSE LogContext(x1, "WARN", "Client error occurred", ctx, "")
         IN  [x2 EXCEPT !.w = WriteError(@, appErr, TRUE)]
    ELSE LET x1 == RecordError(x, "server_error", "unhandled_error")
             x2 == LogContext(x1, "ERROR", "Unhandled error occurred", ctx, "")
             internalErr == WithRequestID(WithCause(NewInternalError, err.Message[1]), requestID)
         IN  [x2 EXCEPT !.w = WriteError(@, internalErr, TRUE)]

\* ErrorMiddleware(handler) and AuthMiddleware(handler) = ErrorMiddleware of
\* AuthHandler.  route = [auth, name]; requestID is the value its call of
\* generateRequestID returned.  A panic of the handler unwinds through the
\* middleware: nothing after the call runs.
ErrorMiddleware(route, x, ctxIn, req, env, requestID) ==
    LET ctx == [ctxIn EXCEPT !.requestID = requestID]
        x1 == [x EXCEPT !.w.xRequestID = requestID]
        Returned(r) ==
            LET failed == r.err.kind # "nil"
                x2 == IF failed THEN handleError(r.x, ctx, r.err, requestID) ELSE r.x
                statusCode == IF ~failed THEN 200
                              ELSE IF IsAppError(r.err) THEN r.err.StatusCode
                              ELSE 500
                x3 == IF failed THEN x2 ELSE LogHTTPRequest(x2, ctx, statusCode)
                x4 == RecordHTTPRequest(x3, req.method, normalizeEndpoint(req.path), statusCode)
            IN  IF r.panic THEN r ELSE [r EXCEPT !.x = x4]
    IN  Returned(IF route.auth
                 THEN AuthHandler(route.name, x1, ctx, req, env)
                 ELSE ErrorHandler(route.name, x1, ctx, req, env))

\* promhttp.Handler(): the metrics exposition, written with an implicit 200.
MetricsHandler(x, env) ==
    Result(HandlerWrite(x, DataDoc("metrics", <<>>, 0, <<>>)), NilError, FALSE, env.db)

\* createMux: the pattern a path is served under.  A path matching no other
\* pattern falls to "/".
createMux(x, ctx, req, env, requestID) ==
    LET p == req.path.prefix
        public(name) == [auth |-> FALSE, name |-> name]
        protected(name) == [auth |-> TRUE, name |-> name]
        route == CASE p = "/auth/register" -> public("HandleRegister")
                   [] p = "/auth/login"    -> public("HandleLogin")
                   [] p = "/auth/logout"   -> public("HandleLogout")
                   [] p = "/api/tasks"     -> protected("HandleTasks")
                   [] p = "/api/tasks/"    -> protected("HandleTaskByID")
                   [] p = "/auth/user"     -> protected("HandleGetUser")
                   [] p = "/api/profile"   -> protected("handleProfile")
                   [] OTHER                -> public("handleHome")
    IN  IF p = "/metrics" THEN MetricsHandler(x, env)
        ELSE ErrorMiddleware(route, x, ctx, req, env, requestID)

\* The routes createMux wraps in AuthMiddleware.
ProtectedPrefixes == {"/api/tasks", "/api/tasks/", "/auth/user", "/api/profile"}

\* RequestLoggingMiddleware(createMux()).  ids.a is the value its call of
\* generateRequestID returned: the request reaches it with no id in its
\* context.  Its access-log entry reads the context it made and the status
\* its wrapper recorded; a panic below it skips the entry.
RequestLoggingMiddleware(x, req, env, ids) ==
    LET ctx == [EmptyContext EXCEPT !.requestID = ids.a]
        x1 == [x EXCEPT !.w.xRequestID = ids.a]
        Returned(r) ==
            IF r.panic THEN r
            ELSE [r EXCEPT !.x = LogHTTPRequest(r.x, ctx, r.x.w.wrapperStatus)]
    IN  Returned(createMux(x1, ctx, req, env, ids.b))

\* A variant of PanicRecoveryMiddleware whose deferred function recovers
\* the panic and writes nothing.
C22_Mutant_PanicRecoveryWritesNothing(x, req, env, ids) ==
    RequestLoggingMiddleware(x, req, env, ids)

\* PanicRecoveryMiddleware(RequestLoggingMiddleware(...)): the handler of
\* the server.  Its deferred function sees the request as it arrived, with
\* no id in its context, so the id of the panic response is ids.c, the
\* value of its own call of generateRequestID; it writes through the
\* server's ResponseWriter, not the wrapper.
PanicRecoveryMiddleware(x, req, env, ids) ==
    LET requestID == ids.c
        panicErr == WithDetails(WithRequestID(NewInternalError, requestID), "panic_recovered")
        Deferred(r) ==
            IF ~r.panic THEN r
            ELSE [r EXCEPT !.x = [LogContext(r.x, "ERROR", "Panic recovered", EmptyContext, requestID)
                                     EXCEPT !.w = WriteError(@, panicErr, FALSE)]]
    IN  Deferred(RequestLoggingMiddleware(x, req, env, ids))

\* generateRequestID: a second-resolution timestamp and six characters,
\* each charset[time.Now().UnixNano() % 62].  The value is a function of
\* the clock values the call reads and of nothing else (no counter, no
\* random source), one member of RequestIDs per sequence of readings:
\* calls that read the same values yield the same id, calls that read
\* different values may or may not.  Nothing ties the value of one call to
\* the value of another.
RequestIDs == {"id-1", "id-2"}

GeneratedIDs == [a : RequestIDs, b : RequestIDs, c : RequestIDs]

-----------------------------------------------------------------------------
(* requests *)

\* The decoded JSON body of a request; ok is FALSE when Decode fails.
NoBody ==
    [ok |-> TRUE, username |-> <<>>, email |-> <<>>, password |-> <<>>,
     id |-> 0, title |-> <<>>, description |-> <<>>, completed |-> FALSE, user_id |-> 0]

BadJSON == [NoBody EXCEPT !.ok = FALSE]

RegisterBody(username, email, password) ==
    [NoBody EXCEPT !.username = username, !.email = email, !.password = password]

LoginBody(email, password) == [NoBody EXCEPT !.email = email, !.password = password]

TaskBody(title, completed) == [NoBody EXCEPT !.title = title, !.completed = completed]

\* A models.Task document that names an id and an owner of its own.
OwnedTaskBody(title, completed, id, userID) ==
    [TaskBody(title, completed) EXCEPT !.id = id, !.user_id = userID]

\* The auth_token cookie of a request and its Authorization header, the
\* header as the parts strings.Split(authHeader, " ") yields (<<>> for "").
NoCookie == [present |-> FALSE, value |-> Text("")]

Cookie(value) == [present |-> TRUE, value |-> value]

NoCredential == [cookie |-> NoCookie, authorization |-> <<>>]

ByCookie(tok) == [cookie |-> Cookie(tok), authorization |-> <<>>]

ByBearer(tok) == [cookie |-> NoCookie, authorization |-> <<Text("Bearer"), tok>>]

Request(method, prefix, tail, cred, body) ==
    [method |-> method, path |-> [prefix |-> prefix, tail |-> tail],
     cookie |-> cred.cookie, authorization |-> cred.authorization, body |-> body]

NoRequest == Request("", "", <<>>, NoCredential, NoBody)

\* The faults an ErrorHandler can show (see ErrorHandler).
Faults == {"none", "untyped", "panicEntry", "panicLate"}

-----------------------------------------------------------------------------
(* state *)

\* Registrations in flight, one slot per concurrent connection: a
\* registration is between its SELECT and its INSERT while its slot is
\* "selected"; a "done" slot keeps the request and the response (status and
\* error code) of the registration it served last.
Slots == 1..MaxInFlight

IdleSlot ==
    [pc |-> "idle", req |-> NoRequest, fault |-> "none", requestID |-> "",
     found |-> FALSE, status |-> 0, code |-> ""]

\* The error code of a response: the code of the first document of its body.
ResponseCode(w) == IF w.body = <<>> THEN "" ELSE w.body[1].code

\* The cookie jar of the browser: the auth_token cookie the server set
\* last, when it set it, and the user the response that set it named.
NoJar == [token |-> Text(""), issuedAt |-> 0, userID |-> 0, username |-> <<>>]

NoLast ==
    [served |-> FALSE, req |-> NoRequest, fault |-> "none", x |-> NewExchange,
     panicked |-> FALSE, tasksBefore |-> {}]

\* Init: the server has started on an empty database; no request yet.
Init ==
    /\ db = EmptyDB
    /\ now = 1
    /\ jar = NoJar
    /\ reg = [slot \in Slots |-> IdleSlot]
    /\ last = NoLast
    /\ kept = Text("")
    /\ minLevel = "INFO"

\* The server answers req: the whole chain runs on a fresh exchange, the
\* database takes the handler's statements, the client keeps the last
\* auth_token cookie the response set.  last holds one finished exchange at
\* a time: the next one is recorded once Release has let it go.
Respond(req, fault, ids, selectFound) ==
    ~last.served /\
    LET env == [db |-> db, now |-> now, fault |-> fault, selectFound |-> selectFound]
        Responded(r) ==
            LET cookies == r.x.w.setCookie
            IN  /\ db' = r.db
                /\ last' = [served |-> TRUE, req |-> req, fault |-> fault, x |-> r.x,
                            panicked |-> r.panic, tasksBefore |-> db.tasks]
                /\ jar' = IF cookies = <<>> THEN jar
                          ELSE [token |-> cookies[Len(cookies)], issuedAt |-> now,
                                userID |-> r.x.w.body[1].userID,
                                username |-> r.x.w.body[1].username]
                /\ UNCHANGED <<now, kept, minLevel>>
    IN  Responded(PanicRecoveryMiddleware(NewExchange, req, env, ids))

\* A request other than a registration: its handler issues at most one
\* statement that decides its outcome, so it is served in one step.
Serve(req, fault) ==
    /\ req.path.prefix # "/auth/register"
    /\ (req.method = "POST" /\ req.path.prefix = "/api/tasks") => db.taskSeq <= MaxTasks
    /\ \E ids \in GeneratedIDs : Respond(req, fault, ids, FALSE)
    /\ UNCHANGED reg

\* ErrorMiddleware up to the call of its handler and HandleRegister up to
\* its SELECT (handlers/auth.go:43): the slot keeps requestID, the value
\* the generateRequestID call of ErrorMiddleware returned for the request,
\* and what the SELECT returned.
RegisterSelect(slot, req, fault, requestID) ==
    /\ reg[slot].pc # "selected"
    /\ db.userSeq <= MaxUsers
    /\ req.path.prefix = "/auth/register"
    /\ reg' = [reg EXCEPT ![slot] =
                  [pc |-> "selected", req |-> req, fault |-> fault,
                   requestID |-> requestID,
                   found |-> SelectUserByNameOrEmail(db, req.body.username, req.body.email) # {},
                   status |-> 0, code |-> ""]]
    /\ UNCHANGED <<db, now, jar, last, kept, minLevel>>

\* HandleRegister from its SELECT on, and the chain around it.
RegisterInsert(slot) ==
    /\ reg[slot].pc = "selected"
    /\ \E ids \in GeneratedIDs :
           /\ ids.b = reg[slot].requestID
           /\ Respond(reg[slot].req, reg[slot].fault, ids, reg[slot].found)
    /\ reg' = [reg EXCEPT ![slot] =
                  [@ EXCEPT !.pc = "done", !.status = last'.x.w.status,
                            !.code = ResponseCode(last'.x.w)]]

\* The exchange of a finished request is let go: its ResponseWriter and its
\* context do not outlive it, nothing of it reaches a later request.
Release ==
    /\ last.served
    /\ last' = NoLast
    /\ UNCHANGED <<db, now, jar, reg, kept, minLevel>>

\* A client copies the token of its auth_token cookie aside, once.  The
\* copy is the client's: no Set-Cookie of the server reaches it.
Keep ==
    /\ jar.token.text = "jwt"
    /\ kept = Text("")
    /\ kept' = jar.token
    /\ UNCHANGED <<db, now, jar, reg, last, minLevel>>

\* The clock advances by a second, or to one second short of the lifetime of
\* a token, from where further seconds carry it to and past an expiry.
Tick ==
    /\ \/ now % TokenTTL < MaxClock /\ now' = now + 1
       \/ now < TokenTTL /\ now' = now + TokenTTL - 1
    /\ UNCHANGED <<db, jar, reg, last, kept, minLevel>>

-----------------------------------------------------------------------------
(* values the clients send *)

bob == <<"b", "o", "b">>

lisa == <<"l", "i", "s", "a">>

bobMail == <<"b", "@", "x", ".", "i", "o">>

lisaMail == <<"l", "@", "x", ".", "i", "o">>

goodPassword == <<"P", "a", "s", "s", "0", "w", "o", "r", "d">>

otherPassword == <<"P", "a", "s", "s", "1", "w", "o", "r", "d">>

PostRegister(body) == Request("POST", "/auth/register", <<>>, NoCredential, body)

\* Registrations: two that share a username, two that share an email, one
\* that fails validation (a username of two characters), one undecodable.
RegisterRequests ==
    {PostRegister(RegisterBody(bob, bobMail, goodPassword)),
     PostRegister(RegisterBody(bob, lisaMail, goodPassword)),
     PostRegister(RegisterBody(lisa, lisaMail, otherPassword)),
     PostRegister(RegisterBody(<<"b", "o">>, bobMail, goodPassword)),
     PostRegister(BadJSON)}

shopping == <<"s", "o", "s">>

laundry == <<"l", "o", "t">>

\* The requests of the public routes other than registration.
PublicRequests ==
    {Request("POST", "/auth/login", <<>>, NoCredential, LoginBody(bobMail, goodPassword)),
     Request("POST", "/auth/login", <<>>, NoCredential, LoginBody(bobMail, otherPassword)),
     Request("POST", "/auth/login", <<>>, NoCredential, BadJSON),
     Request("GET", "/auth/login", <<>>, NoCredential, NoBody),
     Request("POST", "/auth/logout", <<>>, NoCredential, NoBody),
     Request("GET", "/", <<>>, NoCredential, NoBody),
     Request("GET", "/favicon.ico", <<>>, NoCredential, NoBody),
     Request("GET", "/metrics", <<>>, NoCredential, NoBody)}

\* The requests of the protected routes, made with credential cred.
ProtectedRequests(cred) ==
    {Request("GET", "/auth/user", <<>>, cred, NoBody),
     Request("POST", "/auth/user", <<>>, cred, NoBody),
     Request("GET", "/api/profile", <<>>, cred, NoBody),
     Request("PUT", "/api/profile", <<>>, cred, NoBody),
     Request("GET", "/api/tasks", <<>>, cred, NoBody),
     Request("POST", "/api/tasks", <<>>, cred, TaskBody(shopping, FALSE)),
     Request("POST", "/api/tasks", <<>>, cred, TaskBody(<<>>, FALSE)),
     Request("GET", "/api/tasks/", <<>>, cred, NoBody),
     Request("GET", "/api/tasks/", <<"x">>, cred, NoBody),
     Request("GET", "/api/tasks/", <<"1">>, cred, NoBody),
     Request("PUT", "/api/tasks/", <<"1">>, cred, TaskBody(laundry, TRUE)),
     Request("DELETE", "/api/tasks/", <<"1">>, cred, NoBody)}

\* What a client that talks to the server through a browser presents: no
\* credential, or the auth_token cookie the server set last.
BrowserCredentials ==
    {NoCredential} \cup (IF jar.token.text = "" THEN {} ELSE {ByCookie(jar.token)})

-----------------------------------------------------------------------------
(* Spec: the routes of the server behind the whole chain, each handler     *)
(* with every fault an ErrorHandler can show.  The server has started on a *)
(* database in which two users are registered.                             *)

bobUser == [id |-> 1, username |-> bob, email |-> bobMail, password |-> Bcrypt(goodPassword)]

lisaUser == [id |-> 2, username |-> lisa, email |-> lisaMail, password |-> Bcrypt(otherPassword)]

PopulatedDB == [users |-> {bobUser, lisaUser}, userSeq |-> 3, tasks |-> {}, taskSeq |-> 1]

InitPopulated ==
    /\ db = PopulatedDB
    /\ now = 1
    /\ jar = NoJar
    /\ reg = [slot \in Slots |-> IdleSlot]
    /\ last = NoLast
    /\ kept = Text("")
    /\ minLevel = "INFO"

ServePublic == \E req \in PublicRequests, fault \in Faults : Serve(req, fault)

ServeProtected ==
    \E cred \in BrowserCredentials, fault \in Faults :
        \E req \in ProtectedRequests(cred) : Serve(req, fault)

Next == ServePublic \/ ServeProtected \/ Release

Spec == InitPopulated /\ [][Next]_vars

\* C1: every request served through the chain gets exactly one response:
\* one status-line write, whatever the handler does (returns nil, an
\* AppError or an untyped error, or panics, also after it has written).
C1_ExactlyOneStatusLineWrite ==
    last.served => last.x.w.writeHeaderCalls = 1

\* C2: a panic raised inside a handler or a middleware below
\* PanicRecoveryMiddleware is answered with status 500 and the error code
\* INTERNAL_ERROR, and the server goes on serving.
C2_PanicAnswered500InternalError ==
    (last.served /\ last.panicked)
        => /\ last.x.w.status = StatusInternalServerError
           /\ ResponseCode(last.x.w) = "INTERNAL_ERROR"
           /\ ENABLED Release

\* C8: one request has one correlation id: the X-Request-ID header of the
\* response, the request_id of an error body and the request_id of every
\* log entry written for the request are equal.
C8_OneCorrelationID ==
    last.served =>
        /\ \A i \in 1..Len(last.x.w.body) :
               last.x.w.body[i].kind = "error"
                   => last.x.w.body[i].request_id = last.x.w.xRequestID
        /\ \A i \in 1..Len(last.x.log) :
               last.x.log[i].request_id = last.x.w.xRequestID

\* The last request was served by a route createMux wraps in
\* ErrorMiddleware (every route but /metrics).
OnErrorMiddlewareRoute == last.served /\ last.req.path.prefix # "/metrics"

\* The request ended in an error: its handler panicked, or an ErrorResponse
\* was written (for an AppError or an untyped error the handler returned).
ErrorOutcome ==
    \/ last.panicked
    \/ \E i \in 1..Len(last.x.w.body) : last.x.w.body[i].kind = "error"

\* C19: every error outcome of a request increments the error metric
\* exactly once, under the category and the code of the error written to
\* the client (server_error and INTERNAL_ERROR for an untyped error and
\* for a panic).
C19_ErrorMetricOncePerError ==
    (OnErrorMiddlewareRoute /\ ErrorOutcome)
        => /\ last.x.w.body # <<>>
           /\ last.x.w.body[Len(last.x.w.body)].kind = "error"
           /\ last.x.errMetrics =
                  <<[type |-> last.x.w.body[Len(last.x.w.body)].type,
                     code |-> last.x.w.body[Len(last.x.w.body)].code]>>

\* C20: every request that enters a route wrapped by ErrorMiddleware,
\* whatever its outcome (nil, AppError, untyped error or panic), is handed
\* to RecordHTTPRequest exactly once, with its method and its normalized
\* path.
C20_RequestMetricOncePerRequest ==
    OnErrorMiddlewareRoute
        => /\ Len(last.x.httpMetrics) = 1
           /\ last.x.httpMetrics[1].method = last.req.method
           /\ last.x.httpMetrics[1].endpoint = normalizeEndpoint(last.req.path)

\* The patterns createMux registers behind ErrorMiddleware.
RegisteredPatterns ==
    {"/", "/auth/register", "/auth/login", "/auth/logout"} \cup ProtectedPrefixes

\* C21: the endpoint label handed to the metrics collaborator belongs to a
\* fixed finite set, the registered patterns and the placeholder
\* /api/tasks/{id}: every path /api/tasks/<anything> is recorded as
\* /api/tasks/{id} and no path segment chosen by the client is a label, on
\* every route served through ErrorMiddleware, the catch-all "/" included.
C21_EndpointLabelFromFixedSet ==
    OnErrorMiddlewareRoute
        => \A i \in 1..Len(last.x.httpMetrics) :
              /\ last.x.httpMetrics[i].endpoint
                     \in RegisteredPatterns \cup {"/api/tasks/{id}"}
              /\ (last.req.path.prefix = "/api/tasks/" /\ last.req.path.tail # <<>>)
                     => last.x.httpMetrics[i].endpoint = "/api/tasks/{id}"

\* What every error constructor of the taxonomy returns, the constructors
\* with parameters on the arguments the handlers give them.
Taxonomy ==
    {NewAuthRequiredError, NewInvalidTokenError, NewTokenExpiredError,
     NewInvalidCredentialsError, NewUserExistsError,
     NewValidationError(<<>>),
     NewValidationError(<<[field |-> "title", message |-> "This field is required"]>>),
     NewInvalidJSONError, NewMissingFieldError("title"),
     NewInvalidFormatError("id", "integer"),
     NewNotFoundError("Task"), NewNotFoundError("User"), NewNotFoundError("Page"),
     NewForbiddenError, NewConflictError("conflict"),
     NewInternalError, NewDatabaseError, NewServiceUnavailableError,
     NewMethodNotAllowedError}

\* The status the taxonomy gives an error kind: 400 for malformed or invalid
\* input, 401 for authentication failures, 403, 404, 405, 409, 500 for
\* internal and database errors, 503 for unavailability.
StatusOfKind(code) ==
    CASE code \in {"VALIDATION_FAILED", "INVALID_JSON", "MISSING_FIELD", "INVALID_FORMAT"}
             -> StatusBadRequest
      [] code \in {"AUTH_REQUIRED", "INVALID_TOKEN", "TOKEN_EXPIRED", "INVALID_CREDENTIALS"}
             -> StatusUnauthorized
      [] code = "FORBIDDEN" -> StatusForbidden
      [] code = "NOT_FOUND" -> StatusNotFound
      [] code = "METHOD_NOT_ALLOWED" -> StatusMethodNotAllowed
      [] code \in {"USER_EXISTS", "CONFLICT"} -> StatusConflict
      [] code \in {"INTERNAL_ERROR", "DATABASE_ERROR"} -> StatusInternalServerError
      [] code = "SERVICE_UNAVAILABLE" -> StatusServiceUnavailable
      [] OTHER -> 0

\* The response of the last request is one ErrorResponse and nothing else:
\* WriteError wrote its status line and its body.
OnlyErrorWritten ==
    /\ OnErrorMiddlewareRoute
    /\ last.x.w.writeHeaderCalls = 1
    /\ Len(last.x.w.body) = 1
    /\ last.x.w.body[1].kind = "error"

\* C24: every error constructor returns a fixed (code, status, category):
\* no code comes with two statuses, the status is the one of the error's
\* kind (400, 401, 403, 404, 405, 409, 500, 503), and the category is
\* server_error exactly when the status is 500 or 503; so is every error
\* the server answers a request with.
C24_TaxonomyFixedCodeStatusCategory ==
    /\ \A e \in Taxonomy :
           /\ IsAppError(e)
           /\ e.StatusCode = StatusOfKind(e.Code)
           /\ e.Type \in {ErrorTypeClient, ErrorTypeServer, ErrorTypeValidation}
           /\ e.Type = ErrorTypeServer
                  <=> e.StatusCode \in {StatusInternalServerError, StatusServiceUnavailable}
    /\ \A e1, e2 \in Taxonomy : e1.Code = e2.Code => e1.StatusCode = e2.StatusCode
    /\ OnlyErrorWritten
           => /\ last.x.w.status = StatusOfKind(last.x.w.body[1].code)
              /\ last.x.w.body[1].type = ErrorTypeServer
                     <=> last.x.w.status \in {StatusInternalServerError,
                                               StatusServiceUnavailable}

C24_Witness_UntypedErrorAnsweredInternal ==
    /\ OnlyErrorWritten
    /\ last.fault = "untyped"
    /\ last.x.w.body[1].code = "INTERNAL_ERROR"
    /\ last.x.w.body[1].type = ErrorTypeServer
    /\ last.x.w.status = StatusInternalServerError

\* The access-log entries of the last request, in the order written: that
\* of ErrorMiddleware (written when its handler returned nil) comes before
\* that of RequestLoggingMiddleware, which wraps it.
AccessLogEntries == SelectSeq(last.x.log, LAMBDA e : e.message = "HTTP Request")

\* C29: the status code ErrorMiddleware passes to the access log and to
\* RecordHTTPRequest is the status code written to the client, also for a
\* request whose handler writes 201 or 204.
C29_LoggedStatusIsWrittenStatus ==
    OnErrorMiddlewareRoute
        => /\ \A i \in 1..Len(last.x.httpMetrics) :
                  last.x.httpMetrics[i].status = last.x.w.status
           /\ Len(AccessLogEntries) = 2
                  => AccessLogEntries[1].status_code = last.x.w.status

-----------------------------------------------------------------------------
(* SpecAuth: the protected routes under every kind of credential, while    *)
(* the clock runs past the lifetime of the tokens issued by login          *)

LoginRequests ==
    {Request("POST", "/auth/login", <<>>, NoCredential, LoginBody(bobMail, goodPassword)),
     Request("POST", "/auth/login", <<>>, NoCredential, LoginBody(lisaMail, otherPassword))}

\* Tokens that no GenerateToken call produced.  The first group is not
\* signed with jwtSecret by an HMAC method; the second is, but its claims
\* are not those GenerateToken writes.
ForeignTokens ==
    {Text("garbage"),
     JWT("HS256", "another-secret", JNumber(1), JString(bob), JNumber(2 * TokenTTL)),
     JWT("none", "", JNumber(1), JString(bob), JNumber(2 * TokenTTL)),
     JWT("RS256", jwtSecret, JNumber(1), JString(bob), JNumber(2 * TokenTTL)),
     JWT("XS256", jwtSecret, JNumber(1), JString(bob), JNumber(2 * TokenTTL)),
     JWT("HS256", "another-secret", JNumber(1), Absent, JNumber(0)),
     JWT("RS256", jwtSecret, JString(<<"1">>), JString(bob), Absent)}

SignedTokens ==
    {JWT("HS256", jwtSecret, JNumber(1), JString(bob), JNumber(2)),
     JWT("HS512", jwtSecret, JNumber(2), JString(lisa), JNumber(2 * TokenTTL)),
     JWT("HS256", jwtSecret, JNumber(1), JString(bob), JNumber(0)),
     JWT("HS256", jwtSecret, JNumber(1), JString(bob), Absent),
     JWT("HS256", jwtSecret, JNumber(1), JString(bob), JString(<<"1">>)),
     JWT("HS256", jwtSecret, Absent, JString(bob), JNumber(2 * TokenTTL)),
     JWT("HS256", jwtSecret, JString(<<"1">>), JString(bob), JNumber(2 * TokenTTL)),
     JWT("HS256", jwtSecret, JNumber(1), Absent, JNumber(2 * TokenTTL)),
     JWT("HS256", jwtSecret, JNumber(1), JNumber(1), JNumber(2 * TokenTTL))}

\* The ways a client presents a token, well-formed or not.
Presentations(tok) ==
    {ByCookie(tok),
     ByBearer(tok),
     [cookie |-> Cookie(Text("")), authorization |-> <<Text("Bearer"), tok>>],
     [cookie |-> NoCookie, authorization |-> <<Text("Token"), tok>>],
     [cookie |-> NoCookie, authorization |-> <<Text("Bearer"), tok, Text("x")>>],
     [cookie |-> NoCookie, authorization |-> <<tok>>],
     [cookie |-> Cookie(tok), authorization |-> <<Text("Bearer"), Text("garbage")>>],
     [cookie |-> Cookie(Text("garbage")), authorization |-> <<Text("Bearer"), tok>>],
     [cookie |-> Cookie(tok), authorization |-> <<Text("Token")>>]}

Credentials ==
    {NoCredential, [cookie |-> Cookie(Text("")), authorization |-> <<>>]}
    \cup UNION {Presentations(tok) :
                   tok \in IF jar.token.text = "" THEN {} ELSE {jar.token}}
    \cup {ByCookie(tok) : tok \in ForeignTokens \cup SignedTokens}
    \cup {ByBearer(tok) : tok \in ForeignTokens \cup SignedTokens}

\* One reading request per protected route.
ProbeRequests(cred) ==
    {Request("GET", "/auth/user", <<>>, cred, NoBody),
     Request("GET", "/api/profile", <<>>, cred, NoBody),
     Request("GET", "/api/tasks", <<>>, cred, NoBody),
     Request("GET", "/api/tasks/", <<"1">>, cred, NoBody)}

ServeLogin == \E req \in LoginRequests : Serve(req, "none")

ServeProbe == \E cred \in Credentials : \E req \in ProbeRequests(cred) : Serve(req, "none")

NextAuth == ServeLogin \/ ServeProbe \/ Tick \/ Release

SpecAuth == InitPopulated /\ [][NextAuth]_vars

\* What the last request was and how it was answered.
OnProtectedRoute == last.served /\ last.req.path.prefix \in ProtectedPrefixes

Answered(status, code) ==
    /\ last.x.w.status = status
    /\ Len(last.x.w.body) = 1
    /\ last.x.w.body[1].kind = "error"
    /\ last.x.w.body[1].code = code

UsableCookie == last.req.cookie.present /\ last.req.cookie.value # Text("")

TokenMissing == ~UsableCookie /\ last.req.authorization = <<>>

HeaderMalformed ==
    /\ ~UsableCookie
    /\ last.req.authorization # <<>>
    /\ Len(last.req.authorization) # 2 \/ last.req.authorization[1] # Text("Bearer")

TokenRejected ==
    /\ last.x.validateCalls = 1
    /\ ValidateToken(last.x.token, last.x.verifiedAt).err # NilError

\* The token handed to ValidateToken carries a valid HMAC signature under
\* the configured secret.
CorrectlySigned(tok) == tok.text = "jwt" /\ tok.alg \in HMACAlgs /\ tok.key = jwtSecret

\* C5: a request to a route wrapped by AuthMiddleware that carries neither
\* an auth_token cookie nor an Authorization header is answered 401 with
\* the code AUTH_REQUIRED.
C5_NoCredentialAnswered401AuthRequired ==
    (OnProtectedRoute /\ ~last.req.cookie.present /\ last.req.authorization = <<>>)
        => Answered(StatusUnauthorized, "AUTH_REQUIRED")

C5_Witness_NoCredential ==
    /\ OnProtectedRoute
    /\ ~last.req.cookie.present /\ last.req.authorization = <<>>
    /\ last.x.w.status = StatusUnauthorized
    /\ last.x.validateCalls = 0

\* C6: the business handler of a request is invoked at most once, and not
\* at all when AuthMiddleware fails: no token, a malformed Authorization
\* header, or a token ValidateToken rejects.
C6_HandlerAtMostOnceNeverAfterAuthFailure ==
    last.served =>
        /\ last.x.handlerCalls <= 1
        /\ (OnProtectedRoute /\ (TokenMissing \/ HeaderMalformed \/ TokenRejected))
               => last.x.handlerCalls = 0

C6_Witness_RejectedTokenHandlerNotRun ==
    /\ OnProtectedRoute
    /\ TokenRejected
    /\ CorrectlySigned(last.x.token)
    /\ last.x.handlerCalls = 0
    /\ last.x.w.status = StatusUnauthorized

\* C7: whenever a handler behind AuthMiddleware runs, the Claims in its
\* context come from a token whose HMAC signature validated against the
\* configured secret and whose expiry is strictly after the moment of
\* verification.
C7_HandlerRunsOnlyWithUnexpiredVerifiedIdentity ==
    (OnProtectedRoute /\ last.x.handlerCalls > 0)
        => /\ CorrectlySigned(last.x.token)
           /\ last.x.claims.ok
           /\ last.x.token.exp.t = "float64"
           /\ last.x.claims.ExpiresAt = last.x.token.exp.n
           /\ last.x.verifiedAt < last.x.claims.ExpiresAt

\* C9: for a correctly signed token in which user_id, username or exp is
\* absent or of the wrong type, ValidateToken returns an error that
\* AuthMiddleware answers 401 INVALID_TOKEN: no Claims, no fault.
C9_IncompleteClaimsAnswered401InvalidToken ==
    (/\ OnProtectedRoute
     /\ last.x.validateCalls = 1
     /\ CorrectlySigned(last.x.token)
     /\ \/ last.x.token.user_id.t # "float64"
        \/ last.x.token.username.t # "string"
        \/ last.x.token.exp.t # "float64")
        => /\ Answered(StatusUnauthorized, "INVALID_TOKEN")
           /\ ~last.panicked
           /\ last.x.handlerCalls = 0

\* The token handed to ValidateToken is a JWT signed with another secret
\* than the configured one, or by a method that is not an HMAC method.
ForeignSignature(tok) ==
    tok.text = "jwt" /\ (tok.key # jwtSecret \/ tok.alg \notin HMACAlgs)

\* C11: ValidateToken returns an error, and neither Claims nor a fault, for
\* every token signed with a secret other than the configured one and for
\* every token whose algorithm is not HMAC, whatever its claims; the
\* request is answered 401 INVALID_TOKEN and its handler does not run.
C11_ForeignSignatureRejected ==
    (OnProtectedRoute /\ last.x.validateCalls = 1 /\ ForeignSignature(last.x.token))
        => /\ ValidateToken(last.x.token, last.x.verifiedAt).err.kind = "untyped"
           /\ ~ValidateToken(last.x.token, last.x.verifiedAt).panic
           /\ ValidateToken(last.x.token, last.x.verifiedAt).claims = NoClaims
           /\ Answered(StatusUnauthorized, "INVALID_TOKEN")
           /\ ~last.panicked
           /\ last.x.handlerCalls = 0

C11_Witness_AsymmetricAlgorithmConfiguredKey ==
    /\ OnProtectedRoute
    /\ last.x.validateCalls = 1
    /\ last.x.token.alg = "RS256"
    /\ last.x.token.key = jwtSecret
    /\ last.x.token.exp = Absent
    /\ Answered(StatusUnauthorized, "INVALID_TOKEN")

\* C10: a token GenerateToken issued for a user, handed to ValidateToken
\* before its expiry, yields Claims with that user's id and name and with
\* ExpiresAt 24 hours after issuance; from its expiry on it yields an error.
C10_IssuedTokenRoundTrip ==
    (/\ OnProtectedRoute
     /\ last.x.validateCalls = 1
     /\ jar.token.text = "jwt"
     /\ last.x.token = jar.token)
        => IF last.x.verifiedAt < jar.issuedAt + TokenTTL
           THEN last.x.claims = [ok |-> TRUE, UserID |-> jar.userID,
                                 Username |-> jar.username,
                                 ExpiresAt |-> jar.issuedAt + TokenTTL]
           ELSE /\ last.x.claims = NoClaims
                /\ Answered(StatusUnauthorized, "INVALID_TOKEN")

C10_Witness_ValidatedLaterThanIssued ==
    /\ OnProtectedRoute
    /\ jar.token.text = "jwt"
    /\ last.x.token = jar.token
    /\ last.x.claims.ok
    /\ last.x.claims.UserID = 2
    /\ jar.issuedAt = 2
    /\ last.x.verifiedAt = TokenTTL + 1

\* The last request as it would have arrived without its Authorization
\* header, and the environment the server answered it in.
WithoutHeader == [last.req EXCEPT !.authorization = <<>>]

EnvOfLast ==
    [db |-> db, now |-> last.x.verifiedAt, fault |-> last.fault, selectFound |-> FALSE]

\* C16: with an auth_token cookie of non-empty value the token handed to
\* ValidateToken is the cookie's, and everything the request produces is
\* what the same request without Authorization header produces.
C16_CookieDecidesHeaderIgnored ==
    (OnProtectedRoute /\ UsableCookie)
        => /\ last.x.validateCalls = 1
           /\ last.x.token = last.req.cookie.value
           /\ \E ids \in GeneratedIDs :
                  last.x = PanicRecoveryMiddleware(NewExchange, WithoutHeader, EnvOfLast, ids).x

C16_Witness_ValidHeaderBehindBadCookie ==
    /\ OnProtectedRoute
    /\ last.req.cookie = Cookie(Text("garbage"))
    /\ Len(last.req.authorization) = 2
    /\ last.req.authorization[1] = Text("Bearer")
    /\ ValidateToken(last.req.authorization[2], last.x.verifiedAt).claims.ok
    /\ last.x.token = Text("garbage")
    /\ Answered(StatusUnauthorized, "INVALID_TOKEN")

\* C17: without a usable cookie, an Authorization header that is not
\* "Bearer" and one more part is answered 401 INVALID_TOKEN; ValidateToken
\* is not called and the handler does not run.
C17_MalformedHeaderAnswered401 ==
    (OnProtectedRoute /\ HeaderMalformed)
        => /\ Answered(StatusUnauthorized, "INVALID_TOKEN")
           /\ last.x.validateCalls = 0
           /\ last.x.handlerCalls = 0

C17_Witness_OtherSchemeValidToken ==
    /\ OnProtectedRoute
    /\ HeaderMalformed
    /\ Len(last.req.authorization) = 2
    /\ last.req.authorization[1] = Text("Token")
    /\ ValidateToken(last.req.authorization[2], now).claims.ok
    /\ last.x.w.status = StatusUnauthorized

\* C18: when ValidateToken returns an error, AuthMiddleware returns
\* INVALID_TOKEN with that error as its cause, and the client receives the
\* same 401 response whatever the cause was.
C18_RejectionCauseNotInResponse ==
    (OnProtectedRoute /\ TokenRejected)
        => /\ AuthHandler("HandleGetUser", NewExchange, EmptyContext, last.req, EnvOfLast).err
                  = WithCause(NewInvalidTokenError,
                              ValidateToken(last.x.token, last.x.verifiedAt).err.Message[1])
           /\ last.x.w.status = StatusUnauthorized
           /\ last.x.w.setCookie = <<>>
           /\ Len(last.x.w.body) = 1
           /\ [last.x.w.body[1] EXCEPT !.request_id = ""] = ErrorDoc(NewInvalidTokenError)

C18_Witness_ExpiredTokenRejected ==
    /\ OnProtectedRoute
    /\ TokenRejected
    /\ ValidateToken(last.x.token, last.x.verifiedAt).err.Message = <<"token is expired">>
    /\ last.x.token = jar.token
    /\ Answered(StatusUnauthorized, "INVALID_TOKEN")

-----------------------------------------------------------------------------
(* SpecSession: a client logs in, copies its token aside, logs out, and    *)
(* goes on presenting the copy while the clock runs to and past its expiry *)

ServeLogout ==
    \E cred \in BrowserCredentials :
        Serve(Request("POST", "/auth/logout", <<>>, cred, NoBody), "none")

ServeKept ==
    /\ kept.text = "jwt"
    /\ \E cred \in {ByCookie(kept), ByBearer(kept)} :
           \E req \in ProbeRequests(cred) : Serve(req, "none")

NextSession == ServeLogin \/ ServeLogout \/ Keep \/ ServeKept \/ Tick \/ Release

SpecSession == InitPopulated /\ [][NextSession]_vars

\* The last request presented the token the client had copied aside.
KeptPresented ==
    /\ OnProtectedRoute
    /\ kept.text = "jwt"
    /\ last.x.validateCalls = 1
    /\ last.x.token = kept

\* The browser's cookie was cleared by the Set-Cookie of a logout.
LoggedOut == jar.token = Text("") /\ jar.issuedAt > 0

AcceptedUntilExpiry ==
    KeptPresented =>
        IF last.x.verifiedAt < kept.exp.n
        THEN /\ last.x.handlerCalls = 1
             /\ last.x.claims.ok
             /\ last.x.claims.UserID = kept.user_id.n
             /\ last.x.w.status # StatusUnauthorized
        ELSE /\ last.x.handlerCalls = 0
             /\ Answered(StatusUnauthorized, "INVALID_TOKEN")

LogoutLeavesStorage ==
    (last'.served /\ last'.req.path.prefix = "/auth/logout") => db' = db

\* C12: logout changes no server-side state, and a token the server issued
\* is accepted on every protected request that presents it before its
\* expiry and rejected on every one from its expiry on, whether or not a
\* logout came in between: expiry alone turns an issued token away.
C12_LogoutRevokesNothingExpiryAlone ==
    []AcceptedUntilExpiry /\ [][LogoutLeavesStorage]_vars

C12_Witness_AcceptedAfterLogout ==
    /\ KeptPresented
    /\ LoggedOut
    /\ kept.exp.n = 1 + TokenTTL
    /\ last.x.verifiedAt = TokenTTL
    /\ last.x.handlerCalls = 1
    /\ last.x.w.status = StatusOK

-----------------------------------------------------------------------------
(* SpecTasks: two users, each logged in through the browser in turn, work  *)
(* on their own and on each other's tasks                                  *)

TaskRequests(cred) ==
    {Request("GET", "/api/tasks", <<>>, cred, NoBody),
     Request("POST", "/api/tasks", <<>>, cred, TaskBody(shopping, FALSE)),
     Request("POST", "/api/tasks", <<>>, cred, OwnedTaskBody(shopping, FALSE, 2, 1)),
     Request("POST", "/api/tasks", <<>>, cred, OwnedTaskBody(shopping, FALSE, 1, 2)),
     Request("POST", "/api/tasks", <<>>, cred, BadJSON)}
    \cup UNION {{Request("GET", "/api/tasks/", id, cred, NoBody),
                 Request("PUT", "/api/tasks/", id, cred, TaskBody(laundry, TRUE)),
                 Request("PUT", "/api/tasks/", id, cred, OwnedTaskBody(laundry, TRUE, 1, 1)),
                 Request("PUT", "/api/tasks/", id, cred, OwnedTaskBody(laundry, TRUE, 2, 2)),
                 Request("PUT", "/api/tasks/", id, cred, TaskBody(<<" ">>, TRUE)),
                 Request("PUT", "/api/tasks/", id, cred, BadJSON),
                 Request("DELETE", "/api/tasks/", id, cred, NoBody),
                 Request("PATCH", "/api/tasks/", id, cred, NoBody)} :
                    id \in {<<"1">>, <<"2">>, <<"1", "0">>}}

ServeTasks ==
    \E cred \in BrowserCredentials : \E req \in TaskRequests(cred) : Serve(req, "none")

NextTasks == ServeLogin \/ ServeTasks \/ Release

SpecTasks == InitPopulated /\ [][NextTasks]_vars

\* The last request was made on /api/tasks/{id} with a credential
\* AuthMiddleware accepted, and the id is that of a task of another user.
OnTaskOfAnotherUser ==
    /\ OnProtectedRoute
    /\ last.req.path.prefix = "/api/tasks/"
    /\ last.req.method \in {"GET", "PUT", "DELETE"}
    /\ last.x.claims.ok
    /\ \E t \in last.tasksBefore :
           /\ Atoi(last.req.path.tail) = [ok |-> TRUE, n |-> t.id]
           /\ t.user_id # last.x.claims.UserID

\* C4 as stated: every GET, PUT or DELETE on /api/tasks/{id} with a valid
\* credential of one user on a task of another user is answered
\* 404 NOT_FOUND and leaves the task as it was.
C4_Stated_OtherUsersTaskAnswered404 ==
    OnTaskOfAnotherUser
        => /\ Answered(StatusNotFound, "NOT_FOUND")
           /\ db.tasks = last.tasksBefore

\* C4 amended: such a request never succeeds, is never answered 403 and
\* leaves the task as it was; it is answered 404 NOT_FOUND, except that a
\* PUT whose body does not decode is answered 400 INVALID_JSON and a PUT
\* whose body fails ValidateTaskInput is answered 400 VALIDATION_FAILED,
\* both before the task is looked up.
C4_OtherUsersTaskNeverServed ==
    OnTaskOfAnotherUser
        => /\ db.tasks = last.tasksBefore
           /\ last.x.w.status \notin {StatusOK, StatusNoContent, StatusForbidden}
           /\ IF last.req.method = "PUT" /\ ~last.req.body.ok
              THEN Answered(StatusBadRequest, "INVALID_JSON")
              ELSE IF /\ last.req.method = "PUT"
                      /\ ValidateTaskInput(last.req.body.title, last.req.body.description) # NilError
              THEN Answered(StatusBadRequest, "VALIDATION_FAILED")
              ELSE Answered(StatusNotFound, "NOT_FOUND")

C4_Witness_DeleteOtherUsersTask ==
    /\ OnTaskOfAnotherUser
    /\ last.req.method = "DELETE"
    /\ last.x.w.status = StatusNotFound
    /\ \E t \in db.tasks : t.id = 1 /\ t.user_id # last.x.claims.UserID

\* The ids of a set of tasks.
TaskIDs(S) == {t.id : t \in S}

\* C26: every task's owner is the authenticated subject of the request
\* that created it: a task a request has created belongs to the user of
\* the verified Claims of that request, whatever id and user_id its body
\* names, and no request changes the id or the owner of a task there was.
C26_OwnerIsCreatorAndNeverChanges ==
    last.served
        => \A t \in db.tasks :
              IF t.id \in TaskIDs(last.tasksBefore)
              THEN \E o \in last.tasksBefore : o.id = t.id /\ o.user_id = t.user_id
              ELSE /\ last.req.method = "POST" /\ last.req.path.prefix = "/api/tasks"
                   /\ last.x.claims.ok
                   /\ t.user_id = last.x.claims.UserID
                   /\ t.user_id = jar.userID

C26_Witness_BodyNamesAnotherOwner ==
    /\ last.served
    /\ last.req.method = "POST" /\ last.req.path.prefix = "/api/tasks"
    /\ last.req.body.user_id = 2 /\ last.req.body.id = 1
    /\ last.x.claims.UserID = 1
    /\ last.x.w.status = StatusCreated
    /\ \E t \in db.tasks \ last.tasksBefore : t.user_id = 1 /\ t.id # 1

C26_Witness_UpdateKeepsOwner ==
    /\ last.served
    /\ last.req.method = "PUT" /\ last.req.body.user_id = 2 /\ last.req.body.id = 2
    /\ last.x.claims.UserID = 1
    /\ last.x.w.status = StatusOK
    /\ \E t \in db.tasks : t.id = 1 /\ t.user_id = 1 /\ t.title = laundry
    /\ \E t \in last.tasksBefore : t.id = 1 /\ t.title # laundry

\* The task id of the path of the last request, as HandleTaskByID reads it.
PathTaskID == Atoi(last.req.path.tail)

\* The ids the sequence of tasks has handed out that are on no row of S:
\* in SpecTasks every INSERT succeeds, so these are the ids of the tasks a
\* DELETE has removed.
DeletedIDs(S) == (1..(db.taskSeq - 1)) \ TaskIDs(S)

\* The last request was a GET, PUT or DELETE on /api/tasks/{id}, made with
\* a credential AuthMiddleware accepted, on the id of a task deleted before.
OnDeletedTask ==
    /\ OnProtectedRoute
    /\ last.req.path.prefix = "/api/tasks/"
    /\ last.req.method \in {"GET", "PUT", "DELETE"}
    /\ last.x.claims.ok
    /\ PathTaskID.ok /\ PathTaskID.n \in DeletedIDs(last.tasksBefore)

\* C28 as stated: once DELETE /api/tasks/{id} has returned 204, every later
\* GET, PUT or DELETE on the id by any user is answered 404 NOT_FOUND.
C28_Stated_DeletedTaskAnswered404 ==
    OnDeletedTask => Answered(StatusNotFound, "NOT_FOUND")

\* What holds of a finished exchange: a DELETE answered 204 has removed the
\* row of its id; a later GET, PUT or DELETE on a deleted id succeeds for
\* no user and brings no row back, and is answered 404 NOT_FOUND unless it
\* is a PUT whose body does not decode (400 INVALID_JSON) or fails
\* ValidateTaskInput (400 VALIDATION_FAILED); a list of tasks holds rows of
\* the table only.
DeletedTaskNotServed ==
    /\ (OnProtectedRoute /\ last.req.method = "DELETE"
            /\ last.x.w.status = StatusNoContent)
           => /\ PathTaskID.ok
              /\ PathTaskID.n \in TaskIDs(last.tasksBefore)
              /\ PathTaskID.n \in DeletedIDs(db.tasks)
    /\ OnDeletedTask
           => /\ db.tasks = last.tasksBefore
              /\ last.x.w.status \notin {StatusOK, StatusNoContent}
              /\ IF last.req.method = "PUT" /\ ~last.req.body.ok
                 THEN Answered(StatusBadRequest, "INVALID_JSON")
                 ELSE IF /\ last.req.method = "PUT"
                         /\ ValidateTaskInput(last.req.body.title,
                                               last.req.body.description) # NilError
                 THEN Answered(StatusBadRequest, "VALIDATION_FAILED")
                 ELSE Answered(StatusNotFound, "NOT_FOUND")
    /\ (OnProtectedRoute /\ last.req.method = "GET"
            /\ last.req.path.prefix = "/api/tasks" /\ last.x.w.status = StatusOK)
           => \A i \in 1..Len(last.x.w.body[1].tasks) :
                  /\ last.x.w.body[1].tasks[i] \in db.tasks
                  /\ last.x.w.body[1].tasks[i].id \notin DeletedIDs(db.tasks)

\* No step brings back the id of a deleted task.
DeletedStaysDeleted ==
    /\ db'.taskSeq >= db.taskSeq
    /\ DeletedIDs(db.tasks) \cap TaskIDs(db'.tasks) = {}

\* C28 amended: once DELETE /api/tasks/{id} by the owner has returned 204,
\* the task is deleted and stays deleted: every later GET, PUT or DELETE on
\* the id by any user fails, with 404 NOT_FOUND or, for a PUT with an
\* undecodable or invalid body, with 400, and the task is in no list again.
C28_DeletedTaskStaysDeleted ==
    []DeletedTaskNotServed /\ [][DeletedStaysDeleted]_vars

\* Another task was created after the deletion, and the owner of the
\* deleted task asks for it again.
C28_Witness_GetAfterDelete ==
    /\ OnDeletedTask
    /\ last.req.method = "GET"
    /\ PathTaskID.n = 1
    /\ last.x.w.status = StatusNotFound
    /\ \E t \in db.tasks : t.id = 2 /\ t.user_id = last.x.claims.UserID

-----------------------------------------------------------------------------
(* SpecRegister: concurrent registrations on an empty database *)

BeginRegister ==
    \E slot \in Slots, req \in RegisterRequests, requestID \in RequestIDs :
        RegisterSelect(slot, req, "none", requestID)

FinishRegister == \E slot \in Slots : RegisterInsert(slot)

NextRegister == BeginRegister \/ FinishRegister \/ Release

SpecRegister == Init /\ [][NextRegister]_vars

\* C23: the correlation id ErrorMiddleware generates is unique per request:
\* two requests in flight at once, each past the generateRequestID call of
\* its ErrorMiddleware and before the end of its handler, have different
\* ids, whatever clock values the two calls read.
C23_ConcurrentRequestsDistinctIDs ==
    \A s1, s2 \in Slots :
        (s1 # s2 /\ reg[s1].pc = "selected" /\ reg[s2].pc = "selected")
            => reg[s1].requestID # reg[s2].requestID

\* C3: of two registrations with the same username, served concurrently
\* under whatever interleaving of their SELECTs and INSERTs, at most one is
\* answered 201 and the other is answered 409 USER_EXISTS.
RegisterAccepted(slot) ==
    /\ reg[slot].pc = "done"
    /\ reg[slot].req.body.ok
    /\ ValidateRegisterRequest(reg[slot].req.body.username, reg[slot].req.body.email,
                               reg[slot].req.body.password) = NilError

C3_SameUsernameOneCreatedOtherConflict ==
    \A s1, s2 \in Slots :
        (/\ s1 # s2
         /\ RegisterAccepted(s1) /\ RegisterAccepted(s2)
         /\ reg[s1].req.body.username = reg[s2].req.body.username)
        => /\ ~(reg[s1].status = StatusCreated /\ reg[s2].status = StatusCreated)
           /\ \A s \in {s1, s2} :
                  \/ reg[s].status = StatusCreated
                  \/ reg[s].status = StatusConflict /\ reg[s].code = "USER_EXISTS"

\* C27: in every reachable state, under every interleaving of concurrent
\* registrations, no two stored users share a username and no two stored
\* users share an email.
C27_StoredUsersUniqueNameAndEmail ==
    \A u1, u2 \in db.users :
        (u1.username = u2.username \/ u1.email = u2.email \/ u1.id = u2.id) => u1 = u2

\* Two registrations with one username were both past a SELECT that found
\* no row: one was stored and the INSERT of the other failed.
C27_Witness_BothPastSelectOneStored ==
    \E s1, s2 \in Slots :
        /\ s1 # s2
        /\ reg[s1].pc = "done" /\ reg[s2].pc = "done"
        /\ reg[s1].req.body.username = reg[s2].req.body.username
        /\ ~reg[s1].found /\ ~reg[s2].found
        /\ reg[s1].status = StatusCreated
        /\ reg[s2].status = StatusInternalServerError /\ reg[s2].code = "DATABASE_ERROR"
        /\ Cardinality({u \in db.users : u.username = reg[s1].req.body.username}) = 1

-----------------------------------------------------------------------------
(* SpecInput: registration, login and task payloads with missing, blank    *)
(* and ill-formed fields, on a server that has started on an empty         *)
(* database                                                                *)

blank == <<" ">>

UsernameInputs == {bob, <<>>, blank, <<"0", "b", "o">>}

EmailInputs == {bobMail, lisaMail, <<>>, <<"b", "o", "b">>}

PasswordInputs == {goodPassword, otherPassword, <<>>, blank, <<"P", "a", "0">>}

TitleInputs == {shopping, <<>>, blank}

\* A username with a leading space and one of 31 characters.
EdgeUsernames == {<<" ", "b", "o", "b">>, [i \in 1..31 |-> "b"]}

RegisterInputs ==
    {PostRegister(RegisterBody(u, e, p)) :
        u \in UsernameInputs, e \in EmailInputs \ {lisaMail}, p \in PasswordInputs \ {otherPassword}}
    \cup {PostRegister(RegisterBody(u, bobMail, goodPassword)) : u \in EdgeUsernames}

LoginInputs ==
    {Request("POST", "/auth/login", <<>>, NoCredential, LoginBody(e, p)) :
        e \in EmailInputs, p \in PasswordInputs}

TaskInputs(cred) ==
    UNION {{Request("POST", "/api/tasks", <<>>, cred, TaskBody(t, FALSE)),
            Request("PUT", "/api/tasks/", <<"1">>, cred, TaskBody(t, TRUE))} : t \in TitleInputs}

\* One registration at a time: the payload is what varies here, the id of
\* the request is one value of RequestIDs.
BeginRegisterInput == \E req \in RegisterInputs : RegisterSelect(1, req, "none", "id-1")

ServeLoginInput == \E req \in LoginInputs : Serve(req, "none")

ServeTaskInput ==
    \E cred \in BrowserCredentials : \E req \in TaskInputs(cred) : Serve(req, "none")

NextInput ==
    BeginRegisterInput \/ FinishRegister \/ ServeLoginInput \/ ServeTaskInput \/ Release

SpecInput == Init /\ [][NextInput]_vars

\* The last request reached the validator of its handler: a registration,
\* a login, or the creation or update of a task by an authenticated user.
OnRegistration ==
    /\ last.served /\ last.req.method = "POST" /\ last.req.path.prefix = "/auth/register"
    /\ last.req.body.ok

OnLogin ==
    /\ last.served /\ last.req.method = "POST" /\ last.req.path.prefix = "/auth/login"
    /\ last.req.body.ok

OnTaskInput ==
    /\ last.served /\ last.x.handlerCalls = 1 /\ last.req.body.ok
    /\ \/ last.req.method = "POST" /\ last.req.path.prefix = "/api/tasks"
       \/ last.req.method = "PUT" /\ last.req.path.prefix = "/api/tasks/"

\* The entries of the validation list of the response (<<>> when the
\* response is not an ErrorResponse).
Reported == IF last.x.w.body = <<>> THEN <<>> ELSE last.x.w.body[1].validation

FieldRank(field) ==
    CASE field = "username" -> 1 [] field = "email" -> 2 [] field = "password" -> 3
      [] OTHER -> 4

\* The fields of a registration payload that violate one of their rules.
RegisterViolations(b) ==
    {f \in {"username", "email", "password"} :
        \/ f = "username" /\ (Required(b.username) # <<>> \/ Username(b.username) # <<>>)
        \/ f = "email" /\ (Required(b.email) # <<>> \/ Email(b.email) # <<>>)
        \/ f = "password" /\ (Required(b.password) # <<>> \/ Password(b.password) # <<>>)}

\* C13: a registration whose payload violates no rule passes validation;
\* any other is answered with one 400 VALIDATION_FAILED whose validation
\* list names every violating field, and only those, in the order
\* username, email, password.
C13_RegisterValidationListsEveryField ==
    OnRegistration =>
        IF RegisterViolations(last.req.body) = {}
        THEN ResponseCode(last.x.w) # "VALIDATION_FAILED"
        ELSE /\ Answered(StatusBadRequest, "VALIDATION_FAILED")
             /\ last.x.w.body[1].type = ErrorTypeValidation
             /\ {Reported[i].Field : i \in 1..Len(Reported)} = RegisterViolations(last.req.body)
             /\ \A i, j \in 1..Len(Reported) :
                    i < j => FieldRank(Reported[i].Field) <= FieldRank(Reported[j].Field)

C13_Witness_ThreeFieldsReported ==
    /\ OnRegistration
    /\ last.req.body.username = <<"0", "b", "o">>
    /\ last.req.body.email = <<>>
    /\ last.req.body.password = <<"P", "a", "0">>
    /\ {Reported[i].Field : i \in 1..Len(Reported)} = {"username", "email", "password"}
    /\ last.x.w.status = StatusBadRequest

\* The value of a field of the payload, by the name the validators use.
FieldValue(b, field) ==
    CASE field = "username" -> b.username
      [] field = "email"    -> b.email
      [] field = "password" -> b.password
      [] field = "title"    -> b.title
      [] OTHER              -> b.description

\* C14: a field on which the Required rule reports (an empty or blank
\* value) gets no second report from another rule applied to it, in
\* ValidateRegisterRequest, ValidateLoginRequest and ValidateTaskInput.
C14_RequiredViolationReportedOnce ==
    (OnRegistration \/ OnLogin \/ OnTaskInput) =>
        \A i, j \in 1..Len(Reported) :
            (/\ Reported[i].Field = Reported[j].Field
             /\ Required(FieldValue(last.req.body, Reported[i].Field)) # <<>>)
                => i = j

\* The last request was a well-formed login (its payload passes
\* ValidateLoginRequest) for an email no account has, or for the email of
\* an account with a password that is not the account's.
WellFormedLogin ==
    OnLogin /\ ValidateLoginRequest(last.req.body.email, last.req.body.password) = NilError

UnknownEmail == \A u \in db.users : u.email # last.req.body.email

WrongPassword ==
    \E u \in db.users :
        u.email = last.req.body.email /\ ~CompareHashAndPassword(u.password, last.req.body.password)

\* What the client receives, the correlation id apart: status, cookies and
\* the documents of the body.
ResponseSeen ==
    [status |-> last.x.w.status, setCookie |-> last.x.w.setCookie,
     body |-> [i \in 1..Len(last.x.w.body) |-> [last.x.w.body[i] EXCEPT !.request_id = ""]]]

\* C15: a well-formed login for an unknown email and one for a known email
\* with a wrong password get the same response: 401 INVALID_CREDENTIALS
\* with the same message, details and type.
C15_LoginFailureSameResponse ==
    (WellFormedLogin /\ (UnknownEmail \/ WrongPassword))
        => ResponseSeen =
               [status |-> StatusUnauthorized, setCookie |-> <<>>,
                body |-> <<[kind |-> "error", code |-> "INVALID_CREDENTIALS",
                            message |-> <<"Invalid username or password">>,
                            type |-> ErrorTypeClient, details |-> "", validation |-> <<>>,
                            request_id |-> "", what |-> "", tasks |-> <<>>,
                            userID |-> 0, username |-> <<>>]>>]

C15_Witness_KnownEmailWrongPassword ==
    /\ WellFormedLogin
    /\ WrongPassword
    /\ last.req.body.email = bobMail
    /\ last.req.body.password = otherPassword
    /\ last.x.w.status = StatusUnauthorized

\* The usernameFormat: 3 to 30 characters, the first alphabetic, the others
\* alphanumeric or underscores.
UsernameFormat(u) ==
    /\ Len(u) >= 3 /\ Len(u) <= 30
    /\ u[1] \in Letter
    /\ \A i \in 2..Len(u) : u[i] \in Letter \cup Digit \cup {"_"}

\* C25: every username HandleRegister has stored has the usernameFormat,
\* and a registration whose username has not is answered with a violation
\* on the username field.
C25_StoredUsernameHasFormat ==
    /\ \A u \in db.users : UsernameFormat(u.username)
    /\ (OnRegistration /\ ~UsernameFormat(last.req.body.username))
           => /\ Answered(StatusBadRequest, "VALIDATION_FAILED")
              /\ \E i \in 1..Len(Reported) : Reported[i].Field = "username"

-----------------------------------------------------------------------------
(* SpecLog: the routes of Spec on a server started with LOG_LEVEL unset or *)
(* set to any of the levels Initialize knows.                              *)

InitLogLevel ==
    /\ db = PopulatedDB
    /\ now = 1
    /\ jar = NoJar
    /\ reg = [slot \in Slots |-> IdleSlot]
    /\ last = NoLast
    /\ kept = Text("")
    /\ minLevel \in LogLevels

SpecLog == InitLogLevel /\ [][Next]_vars

\* C30: no entry whose level is below the configured minimum level is
\* written to the sink, whichever logging function wrote it, the access-log
\* entries of LogHTTPRequest included.
C30_NoEntryBelowMinLevel ==
    last.served
        => \A i \in 1..Len(last.x.log) :
              LevelRank(last.x.log[i].level) >= LevelRank(minLevel)

-----------------------------------------------------------------------------
(* SpecLive: the registrations of one connection, accepted and answered   *)
(* in separate steps, their handler with every fault an ErrorHandler can   *)
(* show.  net/http serves each accepted request on a goroutine of its own  *)
(* and the Go scheduler runs every runnable goroutine, so an accepted      *)
(* request is carried through its chain; a finished exchange is always let *)
(* go.                                                                     *)

AcceptRegister ==
    \E req \in RegisterRequests, fault \in Faults, requestID \in RequestIDs :
        RegisterSelect(1, req, fault, requestID)

NextLive == AcceptRegister \/ FinishRegister \/ Release

\* RegisterInsert(slot) can be taken: the chain is total on every request,
\* so the step exists whenever the slot waits and the last exchange has
\* been let go.
RegisterInsertEnabled(slot) == reg[slot].pc = "selected" /\ ~last.served

\* Weak fairness of RegisterInsert(slot), with its enabling condition
\* written out.
FairRegisterInsert(slot) ==
    \/ []<>(~RegisterInsertEnabled(slot))
    \/ []<><<RegisterInsert(slot)>>_vars

SpecLive ==
    /\ Init
    /\ [][NextLive]_vars
    /\ WF_vars(Release)
    /\ \A slot \in Slots : FairRegisterInsert(slot)

\* The response of the last exchange has been written: a status line went
\* out.
ResponseWritten == last.x.w.wroteHeader /\ last.x.w.status # 0

\* C22: every request the server has accepted eventually receives a
\* response, whatever the outcome of its handler (nil, AppError, untyped
\* error or panic): no finished exchange is without a written response.
C22_AcceptedRequestEventuallyAnswered ==
    /\ [](last.served => ResponseWritten)
    /\ \A slot \in Slots :
           (reg[slot].pc = "selected")
               ~> (reg[slot].pc = "done" /\ reg[slot].status # 0)

C22_Witness_PanickedRegistrationAnswered ==
    \E slot \in Slots :
        /\ reg[slot].pc = "done"
        /\ reg[slot].fault = "panicEntry"
        /\ reg[slot].status = StatusInternalServerError
        /\ last.served /\ last.panicked /\ ResponseWritten

=============================================================================
